---- MODULE Spec2Model ----
(***************************************************************************)
(* Rental search assistant: conversation store, hybrid search fusion,      *)
(* search-filter compilation, the RAG agent and the chat controller.       *)
(*                                                                         *)
(* The state machines of this module, one specification each:             *)
(*   SpecStore   ConversationModel (src/src/models/conversation.js)        *)
(*   SpecAddMessage  concurrent ConversationModel.addMessage calls alone   *)
(*   SpecHybrid  VectorSearchService.hybridSearch                          *)
(*               (src/src/services/vector-search.service.js)               *)
(*   SpecFilter  RentalModel.buildSearchQuery (src/src/models/rental.js)   *)
(*   SpecAgent   RentalRAGAgent.chat, one call at a time                   *)
(*               (src/src/agents/rental-rag-agent.js)                      *)
(*   SpecAgents  two concurrent RentalRAGAgent.chat calls                  *)
(*   SpecChat    ChatController.handleChatMessage and handleStreamChat     *)
(*               (src/src/controllers/chat.controller.js)                  *)
(*   SpecHistory handleChatMessage on sessions that hold messages          *)
(*   SpecLifecycle  deleteConversation and cleanupOldConversations         *)
(*   SpecUser    UserModel: saved rentals and search history               *)
(*               (src/src/models/conversation.js)                          *)
(***************************************************************************)
EXTENDS Integers, Sequences, FiniteSets, TLC

VARIABLES
    conversations,   \* the 'conversations' collection, in natural (insertion) order
    calls,           \* the store call of each caller: its position and arguments
    historyResult,   \* what the last getConversationHistory call returned
    searchCall,      \* the hybridSearch call: its position and arguments
    vectorPromise,   \* the promise of this.vectorSearch(...)
    traditionalPromise, \* the promise of this.traditionalSearch(...)
    searchResult,    \* the list hybridSearch returned
    queryCall,       \* the buildSearchQuery call: its position and raw params
    builtQuery,      \* the query buildSearchQuery returned
    turns,           \* one chat turn per request: its position, arguments and locals
    currentUserId,   \* rentalRAGAgent.currentUserId
    lastSearchResults, \* rentalRAGAgent.lastSearchResults
    storeUp,         \* whether the document store answers the chat controller
    now,             \* the clock of the machine, what new Date() reads
    sweepResult,     \* what the last deleteConversation or cleanupOldConversations returned
    userProfile,     \* profile of one user document; every search entry ever pushed; update count
    saveCalls        \* one saveRental call per caller: its position and arguments

storeVars == <<conversations, calls, historyResult>>

hybridVars == <<searchCall, vectorPromise, traditionalPromise, searchResult>>

filterVars == <<queryCall, builtQuery>>

agentVars == <<turns, currentUserId, lastSearchResults, storeUp>>

userVars == <<userProfile, saveCalls>>

restVars == <<now, sweepResult, userProfile, saveCalls>>

vars == <<conversations, calls, historyResult,
          searchCall, vectorPromise, traditionalPromise, searchResult,
          queryCall, builtQuery,
          turns, currentUserId, lastSearchResults, storeUp,
          now, sweepResult, userProfile, saveCalls>>

(***************************************************************************)
(* Bounds                                                                  *)
(***************************************************************************)
MaxCalls == 2
MaxHistoryLimit == 2
MaxToolCalls == 2

Callers == 1..MaxCalls
SessionIds == {"s1", "s2"}
Roles == {"user", "assistant"}
HistoryLimits == (0 - MaxHistoryLimit)..MaxHistoryLimit

Min(a, b) == IF a < b THEN a ELSE b
Max(a, b) == IF a > b THEN a ELSE b

(***************************************************************************)
(* JavaScript values.  A string is the sequence of its characters, so that *)
(* parseInt, trim and split work on it as they do in the runtime.          *)
(***************************************************************************)
Undef   == [t |-> "undefined", s |-> <<>>, n |-> 0, a |-> <<>>]
NaN     == [t |-> "NaN", s |-> <<>>, n |-> 0, a |-> <<>>]
Str(cs) == [t |-> "string", s |-> cs, n |-> 0, a |-> <<>>]
Num(i)  == [t |-> "number", s |-> <<>>, n |-> i, a |-> <<>>]
Bool(b) == [t |-> "boolean", s |-> <<>>, n |-> IF b THEN 1 ELSE 0, a |-> <<>>]
\* An array of strings.
Arr(ss) == [t |-> "array", s |-> <<>>, n |-> 0, a |-> ss]
\* new ObjectId(hex)
ObjectId(cs) == [t |-> "ObjectId", s |-> cs, n |-> 0, a |-> <<>>]

Null == [t |-> "null", s |-> <<>>, n |-> 0, a |-> <<>>]

\* An object: the sequence of its own properties [k, v] in insertion order.
Obj(props) == [t |-> "object", s |-> <<>>, n |-> 0, a |-> props]

Prop(key, value) == [k |-> key, v |-> value]

\* if (v): the empty string, 0, NaN, false and undefined are falsy; an array,
\* even an empty one, is truthy.
Truthy(v) ==
    CASE v.t = "string"  -> v.s # <<>>
      [] v.t = "number"  -> v.n # 0
      [] v.t = "boolean" -> v.n = 1
      [] v.t = "array"   -> TRUE
      [] v.t = "object"  -> TRUE
      [] OTHER           -> FALSE

Digits == {"0", "1", "2", "3", "4", "5", "6", "7", "8", "9"}

HexChars ==
    Digits \cup {"a", "b", "c", "d", "e", "f", "A", "B", "C", "D", "E", "F"}

\* The value of a digit in a radix up to 16.
DigitValue(c) ==
    CASE c = "0" -> 0 [] c = "1" -> 1 [] c = "2" -> 2 [] c = "3" -> 3
      [] c = "4" -> 4 [] c = "5" -> 5 [] c = "6" -> 6 [] c = "7" -> 7
      [] c = "8" -> 8 [] c = "9" -> 9
      [] c \in {"a", "A"} -> 10 [] c \in {"b", "B"} -> 11
      [] c \in {"c", "C"} -> 12 [] c \in {"d", "D"} -> 13
      [] c \in {"e", "E"} -> 14 [] c \in {"f", "F"} -> 15

\* WhiteSpace and LineTerminator of the language: what trim, parseInt and
\* Number strip.  A character that has no escape is written by its code
\* point.
WhiteSpace ==
    {" ", "\t", "\n", "\r", "\f", "U+000B", "U+00A0", "U+FEFF", "U+2028",
     "U+2029", "U+1680", "U+2000", "U+2001", "U+2002", "U+2003", "U+2004",
     "U+2005", "U+2006", "U+2007", "U+2008", "U+2009", "U+200A", "U+202F",
     "U+205F", "U+3000"}

RECURSIVE SkipLeadingSpaces(_)
SkipLeadingSpaces(cs) ==
    IF cs # <<>> /\ Head(cs) \in WhiteSpace THEN SkipLeadingSpaces(Tail(cs)) ELSE cs

RECURSIVE SkipTrailingSpaces(_)
SkipTrailingSpaces(cs) ==
    IF cs # <<>> /\ cs[Len(cs)] \in WhiteSpace
    THEN SkipTrailingSpaces(SubSeq(cs, 1, Len(cs) - 1))
    ELSE cs

\* String.prototype.trim
Trim(cs) == SkipTrailingSpaces(SkipLeadingSpaces(cs))

\* The length of the longest prefix of cs made of decimal digits.
RECURSIVE DigitPrefixLen(_)
DigitPrefixLen(cs) ==
    IF cs # <<>> /\ Head(cs) \in Digits THEN 1 + DigitPrefixLen(Tail(cs)) ELSE 0

\* The value of the longest prefix of cs made of digits of the radix, read
\* after the digits already accumulated in acc.
RECURSIVE DigitPrefixValue(_, _, _)
DigitPrefixValue(cs, radix, acc) ==
    IF cs # <<>> /\ Head(cs) \in HexChars /\ DigitValue(Head(cs)) < radix
    THEN DigitPrefixValue(Tail(cs), radix, radix * acc + DigitValue(Head(cs)))
    ELSE acc

\* parseInt on a string, no radix given: leading white space is skipped,
\* one sign is accepted, a 0x or 0X that follows selects radix 16 (radix 10
\* otherwise), and the digits of the radix are read up to the first
\* character that is not one; NaN when there is no digit to read.
ParseIntString(cs) ==
    LET body     == SkipLeadingSpaces(cs)
        signed   == body # <<>> /\ Head(body) \in {"-", "+"}
        unsigned == IF signed THEN Tail(body) ELSE body
        hex      == Len(unsigned) >= 2 /\ unsigned[1] = "0"
                    /\ unsigned[2] \in {"x", "X"}
        radix    == IF hex THEN 16 ELSE 10
        digits   == IF hex THEN Tail(Tail(unsigned)) ELSE unsigned
    IN  IF digits = <<>> \/ Head(digits) \notin HexChars
           \/ DigitValue(Head(digits)) >= radix
        THEN NaN
        ELSE IF signed /\ Head(body) = "-"
             THEN Num(0 - DigitPrefixValue(digits, radix, 0))
             ELSE Num(DigitPrefixValue(digits, radix, 0))

\* Array.prototype.join(',')
RECURSIVE JoinComma(_)
JoinComma(list) ==
    IF list = <<>> THEN <<>>
    ELSE IF Len(list) = 1 THEN list[1]
    ELSE list[1] \o <<",">> \o JoinComma(Tail(list))

\* parseInt(v) parses ToString(v): a number (an integer here) comes back as
\* it is, an array of strings is read as its elements joined by commas, an
\* ObjectId as its hex string; the text of undefined, null, a boolean, NaN
\* or an object starts with no digit.
ParseInt(v) ==
    CASE v.t = "number"   -> v
      [] v.t = "string"   -> ParseIntString(v.s)
      [] v.t = "array"    -> ParseIntString(JoinComma(v.a))
      [] v.t = "ObjectId" -> ParseIntString(v.s)
      [] OTHER            -> NaN

(***************************************************************************)
(* ConversationModel                                                       *)
(***************************************************************************)

\* Indexes of the documents of the collection that match { sessionId }.
MatchingDocs(coll, sessionId) ==
    {i \in 1..Len(coll) : coll[i].sessionId = sessionId}

\* findOne / updateOne act on the first matching document in natural order.
FirstMatch(coll, sessionId) ==
    CHOOSE i \in MatchingDocs(coll, sessionId) :
        \A j \in MatchingDocs(coll, sessionId) : i <= j

\* The message object addMessage builds; new ObjectId() is unique per call.
NewMessage(p, role, metadata) == [id |-> p, role |-> role, metadata |-> metadata]

\* updateDoc applied to an existing document: $push messages,
\* $inc metadata.totalMessages by 1, $set metadata.lastActivity to the
\* new Date() that addMessage read when it built updateDoc.
ApplyUpdateDocNoInc(doc, message, lastActivity) ==
    [doc EXCEPT !.messages = Append(@, message),
                !.metadata.lastActivity = lastActivity]

ApplyUpdateDoc(doc, message, lastActivity) ==
    [doc EXCEPT !.messages = Append(@, message),
                !.metadata.totalMessages = @ + 1,
                !.metadata.lastActivity = lastActivity]

\* The document an upsert inserts: the equality field of the filter, then
\* updateDoc applied to the empty document.  updateDoc holds the new Date()
\* addMessage read when it was called.
UpsertedDoc(sessionId, message, lastActivity) ==
    [sessionId |-> sessionId,
     messages  |-> <<message>>,
     metadata  |-> [totalMessages |-> 1, toolCallsInSession |-> Undef,
                    lastActivity |-> lastActivity]]

\* A metadata object without keys.
NoMetadata == [totalMessages |-> Undef, toolCallsInSession |-> Undef]

\* The call of caller p: its position, its arguments, and in 'at' the day
\* new Date() gave when the call built its command, before the await.
ReadyCall ==
    [pc |-> "ready", sessionId |-> "s1", role |-> "user", at |-> 0,
     metadata |-> NoMetadata, daysOld |-> 0]

\* createConversation(sessionId) up to 'await collection.insertOne': the
\* document is built, with lastActivity the day of the call.
CreateConversation(p, sessionId) ==
    /\ calls[p].pc = "ready"
    /\ calls' = [calls EXCEPT ![p] =
           [ReadyCall EXCEPT !.pc = "creating", !.sessionId = sessionId,
                             !.role = "none", !.at = now]]
    /\ UNCHANGED <<conversations, historyResult,
                   hybridVars, filterVars, agentVars, restVars>>

\* insertOne(conversation): the store inserts the document, which holds no
\* message, whether or not a document of that session id is stored already.
InsertOneConversation(p) ==
    /\ calls[p].pc = "creating"
    /\ conversations' = Append(conversations,
           [sessionId |-> calls[p].sessionId,
            messages  |-> <<>>,
            metadata  |-> [totalMessages |-> 0, toolCallsInSession |-> Undef,
                           lastActivity |-> calls[p].at]])
    /\ calls' = [calls EXCEPT ![p].pc = "created", ![p].at = 0]
    /\ UNCHANGED <<historyResult, hybridVars, filterVars, agentVars, restVars>>

\* addMessage up to 'await collection.updateOne': message and updateDoc are
\* built, with lastActivity the day of the call.
AddMessage(p, sessionId, role) ==
    /\ calls[p].pc = "ready"
    /\ calls' = [calls EXCEPT ![p] =
           [ReadyCall EXCEPT !.pc = "updating", !.sessionId = sessionId,
                             !.role = role, !.at = now]]
    /\ UNCHANGED <<conversations, historyResult,
                   hybridVars, filterVars, agentVars, restVars>>

\* collection.updateOne({ sessionId }, updateDoc, { upsert: true }) at the
\* store.  When a document matches, the store applies updateDoc to it
\* atomically.  When none matches, the store goes on to insert; the
\* collection has no unique index on sessionId, so the insert is a later
\* step of its own.
UpdateOneMessage(p) ==
    /\ calls[p].pc = "updating"
    /\ IF MatchingDocs(conversations, calls[p].sessionId) # {}
       THEN /\ conversations' =
                   [conversations EXCEPT
                       ![FirstMatch(conversations, calls[p].sessionId)] =
                           ApplyUpdateDoc(@, NewMessage(p, calls[p].role, [error |-> FALSE]),
                                          calls[p].at)]
            /\ calls' = [calls EXCEPT ![p].pc = "done", ![p].at = 0]
       ELSE /\ calls' = [calls EXCEPT ![p].pc = "inserting"]
            /\ UNCHANGED conversations
    /\ UNCHANGED <<historyResult, hybridVars, filterVars, agentVars, restVars>>

\* The insert half of an upsert that found no document to update.
AddMessageUpsertInsert(p) ==
    /\ calls[p].pc = "inserting"
    /\ conversations' = Append(conversations,
           UpsertedDoc(calls[p].sessionId,
                       NewMessage(p, calls[p].role, [error |-> FALSE]), calls[p].at))
    /\ calls' = [calls EXCEPT ![p].pc = "done", ![p].at = 0]
    /\ UNCHANGED <<historyResult, hybridVars, filterVars, agentVars, restVars>>

\* The find projection { messages: { $slice: n } }: the first n elements for
\* n > 0, the last -n elements for n < 0.
SliceProjection(arr, n) ==
    IF n > 0 THEN SubSeq(arr, 1, Min(n, Len(arr)))
    ELSE IF n < 0 THEN SubSeq(arr, Max(1, Len(arr) + n + 1), Len(arr))
    ELSE <<>>

\* getConversationHistory(sessionId, limit): findOne with $slice: -limit.
HistoryMessages(coll, sessionId, limit) ==
    IF MatchingDocs(coll, sessionId) = {}
    THEN <<>>
    ELSE SliceProjection(coll[FirstMatch(coll, sessionId)].messages, 0 - limit)

StoredMessages(coll, sessionId) ==
    IF MatchingDocs(coll, sessionId) = {}
    THEN <<>>
    ELSE coll[FirstMatch(coll, sessionId)].messages

GetConversationHistory(sessionId, limit) ==
    /\ historyResult' =
           [called    |-> TRUE,
            sessionId |-> sessionId,
            limit     |-> limit,
            stored    |-> StoredMessages(conversations, sessionId),
            messages  |-> HistoryMessages(conversations, sessionId, limit)]
    /\ UNCHANGED <<conversations, calls, hybridVars, filterVars, agentVars, restVars>>

NoHistory ==
    [called |-> FALSE, sessionId |-> "s1", limit |-> 0,
     stored |-> <<>>, messages |-> <<>>]

\* The metadata objects the chat controller passes to
\* updateConversationMetadata: toolCallsInSession is the number of tool calls
\* of the answer, here none or the most a turn makes; none of its keys is
\* totalMessages.  A key that is undefined here is a key the object does not
\* have.
ControllerMetadata ==
    [totalMessages : {Undef}, toolCallsInSession : {Num(0), Num(MaxToolCalls)}]

\* The metadata parameter of updateConversationMetadata: the operation takes
\* any object and filters no key.  Besides the objects of the controller, an
\* object with the key totalMessages, which no caller in the repository
\* passes.
MetadataObjects ==
    ControllerMetadata
    \cup [totalMessages : {Num(7)}, toolCallsInSession : {Undef}]

\* The $set of updateConversationMetadata applied to a document: every key
\* of the metadata object is written to 'metadata.<key>', and
\* metadata.lastActivity is the new Date() read when $set was built.
ApplyMetadataSet(doc, metadata, lastActivity) ==
    [doc EXCEPT
        !.metadata.totalMessages =
            IF metadata.totalMessages # Undef THEN metadata.totalMessages.n ELSE @,
        !.metadata.toolCallsInSession =
            IF metadata.toolCallsInSession # Undef
            THEN metadata.toolCallsInSession ELSE @,
        !.metadata.lastActivity = lastActivity]

\* updateConversationMetadata(sessionId, metadata) up to
\* 'await collection.updateOne': $set is built, with the day of the call.
UpdateConversationMetadata(p, sessionId, metadata) ==
    /\ calls[p].pc = "ready"
    /\ calls' = [calls EXCEPT ![p] =
           [ReadyCall EXCEPT !.pc = "setting", !.sessionId = sessionId,
                             !.role = "none", !.at = now, !.metadata = metadata]]
    /\ UNCHANGED <<conversations, historyResult,
                   hybridVars, filterVars, agentVars, restVars>>

\* collection.updateOne({ sessionId }, { $set }) at the store, without
\* upsert: nothing is written when no document matches.  The call returns
\* and the caller is free to call again.
UpdateOneMetadata(p) ==
    /\ calls[p].pc = "setting"
    /\ conversations' =
           IF MatchingDocs(conversations, calls[p].sessionId) = {}
           THEN conversations
           ELSE [conversations EXCEPT
                    ![FirstMatch(conversations, calls[p].sessionId)] =
                        ApplyMetadataSet(@, calls[p].metadata, calls[p].at)]
    /\ calls' = [calls EXCEPT ![p] = ReadyCall]
    /\ UNCHANGED <<historyResult, hybridVars, filterVars, agentVars, restVars>>

\* The collection without its i-th document.
RemoveAt(coll, i) == SubSeq(coll, 1, i - 1) \o SubSeq(coll, i + 1, Len(coll))

\* deleteConversation: collection.deleteOne({ sessionId }) removes the first
\* matching document and the call returns deletedCount.
DeleteConversation(sessionId) ==
    /\ IF MatchingDocs(conversations, sessionId) = {}
       THEN /\ UNCHANGED conversations
            /\ sweepResult' = [op |-> "delete", deletedCount |-> 0]
       ELSE /\ conversations' =
                   RemoveAt(conversations, FirstMatch(conversations, sessionId))
            /\ sweepResult' = [op |-> "delete", deletedCount |-> 1]
    /\ UNCHANGED <<calls, historyResult, now, userVars, hybridVars, filterVars, agentVars>>

\* The documents deleteMany({ 'metadata.lastActivity': { $lt: cutoffDate } })
\* leaves, with every activity up to and including cutoffDate kept as well.
SweptInclusive(coll, cutoffDate) ==
    SelectSeq(coll, LAMBDA doc : ~(doc.metadata.lastActivity <= cutoffDate))

\* The documents deleteMany({ 'metadata.lastActivity': { $lt: cutoffDate } })
\* leaves.
Swept(coll, cutoffDate) ==
    SelectSeq(coll, LAMBDA doc : ~(doc.metadata.lastActivity < cutoffDate))

\* cleanupOldConversations(daysOld) up to 'await collection.deleteMany':
\* cutoffDate is new Date() moved back by daysOld days.
CleanupOldConversations(p, daysOld) ==
    /\ calls[p].pc = "ready"
    /\ calls' = [calls EXCEPT ![p] =
           [ReadyCall EXCEPT !.pc = "sweeping", !.role = "none",
                             !.at = now, !.daysOld = daysOld]]
    /\ UNCHANGED <<conversations, historyResult,
                   hybridVars, filterVars, agentVars, restVars>>

\* collection.deleteMany({ 'metadata.lastActivity': { $lt: cutoffDate } }) at
\* the store; the call returns deletedCount and the caller is free to call
\* again.
DeleteManyOld(p) ==
    LET cutoffDate == calls[p].at - calls[p].daysOld
    IN  /\ calls[p].pc = "sweeping"
        /\ conversations' = Swept(conversations, cutoffDate)
        /\ sweepResult' =
               [op |-> "cleanup",
                deletedCount |-> Len(conversations) - Len(Swept(conversations, cutoffDate))]
        /\ calls' = [calls EXCEPT ![p] = ReadyCall]
        /\ UNCHANGED <<historyResult, now, userVars, hybridVars, filterVars, agentVars>>

MaxDaysOld == 1

\* A day passes; the clock runs one day past the oldest age swept.
Tick ==
    /\ now < MaxDaysOld + 1
    /\ now' = now + 1
    /\ UNCHANGED <<sweepResult, userVars, storeVars, hybridVars, filterVars, agentVars>>

(***************************************************************************)
(* UserModel: saved rentals and search history of one user document        *)
(***************************************************************************)
MaxUserUpdates == 3

SavedRentalIds == {1, 2}

\* $slice: -50 of addToSearchHistory
SearchHistoryKept == 50

\* The updates of the user document made so far.
UserUpdates == userProfile.updates

\* saveRental up to the end of its findOne({ _id, 'profile.saved_rentals.
\* rental_id': rentalId }): a user document that matches makes the call
\* return { success: false, error: 'Rental already saved' }.
SaveRentalFind(p, rentalId) ==
    /\ saveCalls[p].pc = "idle"
    /\ UserUpdates < MaxUserUpdates
    /\ saveCalls' = [saveCalls EXCEPT ![p] =
           IF \E i \in 1..Len(userProfile.saved_rentals) :
                  userProfile.saved_rentals[i] = rentalId
           THEN [pc |-> "idle", rentalId |-> rentalId, result |-> "Rental already saved"]
           ELSE [pc |-> "pushing", rentalId |-> rentalId, result |-> "none"]]
    /\ UNCHANGED <<userProfile, now, sweepResult, storeVars, hybridVars, filterVars, agentVars>>

\* saveRental after the findOne found nothing: updateOne with $push of the
\* saved rental, then return { success: true }.
SaveRentalPush(p) ==
    /\ saveCalls[p].pc = "pushing"
    /\ userProfile' = [userProfile EXCEPT
           !.saved_rentals = Append(@, saveCalls[p].rentalId),
           !.updates       = @ + 1]
    /\ saveCalls' = [saveCalls EXCEPT ![p].pc = "idle", ![p].result = "success"]
    /\ UNCHANGED <<now, sweepResult, storeVars, hybridVars, filterVars, agentVars>>

\* unsaveRental: updateOne with $pull of every saved rental of that id.
UnsaveRental(rentalId) ==
    /\ UserUpdates < MaxUserUpdates
    /\ userProfile' = [userProfile EXCEPT
           !.saved_rentals = SelectSeq(@, LAMBDA r : r # rentalId),
           !.updates       = @ + 1]
    /\ UNCHANGED <<saveCalls, now, sweepResult, storeVars, hybridVars, filterVars, agentVars>>

\* The array after $push with $each and $slice: 50, the first 50 elements.
PushSliceFirst(arr, entry) == SliceProjection(Append(arr, entry), SearchHistoryKept)

\* The array after $push with $each: [entry] and $slice: -50.
PushSlice(arr, entry) == SliceProjection(Append(arr, entry), 0 - SearchHistoryKept)

\* The user document after the updateOne of addToSearchHistory.  The entry
\* is numbered by the updates made before it.
SearchHistoryPushed(profile) ==
    [profile EXCEPT
        !.search_history = PushSlice(@, 1000 + profile.updates),
        !.entries        = Append(@, 1000 + profile.updates),
        !.updates        = @ + 1]

\* addToSearchHistory: one updateOne, applied by the store in one step.
AddToSearchHistory ==
    /\ UserUpdates < MaxUserUpdates
    /\ userProfile' = SearchHistoryPushed(userProfile)
    /\ UNCHANGED <<saveCalls, now, sweepResult, storeVars, hybridVars, filterVars, agentVars>>

(***************************************************************************)
(* The rentals collection searched by VectorSearchService                  *)
(***************************************************************************)
Apartment   == <<"A", "p", "t">>
House       == <<"H", "s", "e">>
EntireHome  == <<"E", "n", "t">>
PrivateRoom == <<"P", "r", "v">>
Portugal    == <<"P", "T">>
Spain       == <<"E", "S">>
Porto       == <<"P", "o", "r", "t", "o">>
Barcelona   == <<"B", "c", "n">>
TrueString  == <<"t", "r", "u", "e">>

\* The documents of the collection in natural order; _id is the position.
Rentals ==
    << [_id |-> 1, property_type |-> Apartment, room_type |-> PrivateRoom,
        price |-> 80, bedrooms |-> 2, accommodates |-> 4,
        host_is_superhost |-> TRUE, country |-> Portugal, market |-> Porto],
       [_id |-> 2, property_type |-> Apartment, room_type |-> EntireHome,
        price |-> 50, bedrooms |-> 1, accommodates |-> 2,
        host_is_superhost |-> FALSE, country |-> Portugal, market |-> Porto],
       [_id |-> 3, property_type |-> House, room_type |-> PrivateRoom,
        price |-> 120, bedrooms |-> 3, accommodates |-> 6,
        host_is_superhost |-> TRUE, country |-> Spain, market |-> Barcelona] >>

RentalIds == 1..Len(Rentals)

\* vectorSearchScore of the cosine index lies in [0, 1]; scores are counted
\* in tenths, so 5 stands for 0.5.
Scores == {3, 5, 8}

\* score: 0.5, given to results only the traditional search found.
FallbackScore == 5

(***************************************************************************)
(* Bounded inputs of hybridSearch                                          *)
(***************************************************************************)
MaxLimit == 4
MaxFilterKeys == 1

FilterKeys ==
    {"property_type", "room_type", "min_price", "max_price", "min_bedrooms",
     "min_accommodates", "superhost_only", "country", "location"}

FilterValues(k) ==
    CASE k = "property_type"    -> {Str(Apartment)}
      [] k = "room_type"        -> {Str(PrivateRoom)}
      [] k = "min_price"        -> {Num(60)}
      [] k = "max_price"        -> {Num(100)}
      [] k = "min_bedrooms"     -> {Num(2)}
      [] k = "min_accommodates" -> {Num(4)}
      [] k = "superhost_only"   -> {Str(TrueString), Bool(TRUE)}
      [] k = "country"          -> {Str(Portugal)}
      [] k = "location"         -> {Str(Porto)}

NoFilters == [k \in FilterKeys |-> Undef]

\* The filter maps that set exactly the keys of K.
RECURSIVE FiltersWith(_)
FiltersWith(K) ==
    IF K = {} THEN {NoFilters}
    ELSE LET k == CHOOSE x \in K : TRUE
         IN  {[m EXCEPT ![k] = v] : m \in FiltersWith(K \ {k}), v \in FilterValues(k)}

FilterInputs ==
    UNION {FiltersWith(K) :
              K \in {J \in SUBSET FilterKeys : Cardinality(J) <= MaxFilterKeys}}

Orderings(S) ==
    {f \in [1..Cardinality(S) -> S] :
        \A i, j \in 1..Cardinality(S) : f[i] = f[j] => i = j}

\* What the query text does to the vector index: a similarity score for
\* every document and the order in which the index ranks them, which is by
\* non-increasing score.
RankedByScore(q) ==
    \A i, j \in 1..Len(q.order) :
        i < j => q.scores[q.order[i]] >= q.scores[q.order[j]]

VectorRankings ==
    {q \in {[scores |-> sc, order |-> ord] :
                sc \in [RentalIds -> Scores], ord \in Orderings(RentalIds)} :
        RankedByScore(q)}

\* What the store answers to the find of the traditional search: the
\* documents the $regex matches, and the order in which it scans the
\* collection.  The find asks for no sort, so the order is the store's choice
\* (a collection scan, the scan of an index).
TextMatches == [matches : SUBSET RentalIds, order : Orderings(RentalIds)]

(***************************************************************************)
(* VectorSearchService                                                     *)
(***************************************************************************)
Take(seq, n) == SubSeq(seq, 1, Min(n, Len(seq)))

\* Math.ceil(limit * 0.7) and Math.ceil(limit * 0.3)
VectorShare(limit) == (7 * limit + 9) \div 10
TraditionalShare(limit) == (3 * limit + 9) \div 10

NoRange == [present |-> FALSE, gte |-> Undef, lte |-> Undef]

\* buildVectorSearchFilter(filters): one entry per path of the filter
\* object, Undef for a path that is not set.
BuildVectorSearchFilter(filters) ==
    [property_type |->
         IF Truthy(filters["property_type"]) THEN filters["property_type"] ELSE Undef,
     room_type |->
         IF Truthy(filters["room_type"]) THEN filters["room_type"] ELSE Undef,
     price |->
         IF Truthy(filters["min_price"]) \/ Truthy(filters["max_price"])
         THEN [present |-> TRUE,
               gte |-> IF Truthy(filters["min_price"])
                       THEN ParseInt(filters["min_price"]) ELSE Undef,
               lte |-> IF Truthy(filters["max_price"])
                       THEN ParseInt(filters["max_price"]) ELSE Undef]
         ELSE NoRange,
     bedrooms |->
         IF Truthy(filters["min_bedrooms"])
         THEN ParseInt(filters["min_bedrooms"]) ELSE Undef,
     accommodates |->
         IF Truthy(filters["min_accommodates"])
         THEN ParseInt(filters["min_accommodates"]) ELSE Undef,
     host_is_superhost |-> filters["superhost_only"] = Str(TrueString),
     country |->
         IF Truthy(filters["country"]) THEN filters["country"] ELSE Undef,
     market |->
         IF Truthy(filters["location"]) THEN filters["location"] ELSE Undef]

\* { $eq: v } on a string field; an unset path constrains nothing.
MatchesEq(field, v) == v = Undef \/ v = Str(field)

\* { $gte: v } and { $lte: v } on a numeric field; no number compares with NaN.
MatchesGte(field, v) == v = Undef \/ (v.t = "number" /\ field >= v.n)
MatchesLte(field, v) == v = Undef \/ (v.t = "number" /\ field <= v.n)

\* The filter stage of $vectorSearch.
MatchesVectorFilter(doc, vf) ==
    /\ MatchesEq(doc.property_type, vf.property_type)
    /\ MatchesEq(doc.room_type, vf.room_type)
    /\ MatchesGte(doc.price, vf.price.gte)
    /\ MatchesLte(doc.price, vf.price.lte)
    /\ MatchesGte(doc.bedrooms, vf.bedrooms)
    /\ MatchesGte(doc.accommodates, vf.accommodates)
    /\ (vf.host_is_superhost => doc.host_is_superhost)
    /\ MatchesEq(doc.country, vf.country)
    /\ MatchesEq(doc.market, vf.market)

\* vectorSearch(queryText, filters, limit): the limit best-scored documents
\* that pass the filter, each with its vectorSearchScore.
VectorSearch(q, filters, limit) ==
    LET passing == SelectSeq(q.order,
                       LAMBDA id : MatchesVectorFilter(Rentals[id],
                                       BuildVectorSearchFilter(filters)))
        hits == Take(passing, limit)
    IN  [i \in 1..Len(hits) |->
            [_id |-> hits[i], score |-> q.scores[hits[i]], source |-> "vector"]]

\* The filters traditionalSearch adds to its $regex query: property_type and
\* the price range, nothing else.
MatchesTraditionalFilter(doc, filters) ==
    /\ Truthy(filters["property_type"]) =>
           filters["property_type"] = Str(doc.property_type)
    /\ Truthy(filters["min_price"]) =>
           MatchesGte(doc.price, ParseInt(filters["min_price"]))
    /\ Truthy(filters["max_price"]) =>
           MatchesLte(doc.price, ParseInt(filters["max_price"]))

\* traditionalSearch(queryText, filters, limit): the first limit documents, in
\* the order of the store's scan, that match the text and the filters; they
\* carry no score.  cursor.limit(0) sets no limit and cursor.limit(-n)
\* returns n documents.
TraditionalSearch(q, filters, limit) ==
    LET matching == SelectSeq(q.order,
                        LAMBDA id : id \in q.matches
                                    /\ MatchesTraditionalFilter(Rentals[id], filters))
    IN  IF limit = 0 THEN matching
        ELSE Take(matching, IF limit < 0 THEN 0 - limit ELSE limit)

\* Array.prototype.sort((a, b) => (b.score || 0) - (a.score || 0)): stable,
\* non-increasing score.  InsertByScore puts x behind every element whose
\* score is not below its own.
RECURSIVE InsertByScore(_, _)
\* An element is put before the elements of equal score.
InsertByScoreBeforeEqual(sorted, x) ==
    IF sorted = <<>> THEN <<x>>
    ELSE IF Head(sorted).score > x.score
         THEN <<Head(sorted)>> \o InsertByScore(Tail(sorted), x)
         ELSE <<x>> \o sorted

InsertByScore(sorted, x) ==
    IF sorted = <<>> THEN <<x>>
    ELSE IF Head(sorted).score >= x.score
         THEN <<Head(sorted)>> \o InsertByScore(Tail(sorted), x)
         ELSE <<x>> \o sorted

\* The combined list is returned in the order it was built, not sorted.
SortByScoreSkipped(seq) == seq

RECURSIVE SortByScore(_)
SortByScore(seq) ==
    IF seq = <<>> THEN <<>>
    ELSE InsertByScore(SortByScore(SubSeq(seq, 1, Len(seq) - 1)), seq[Len(seq)])

IdsOf(results) == {results[i]._id : i \in 1..Len(results)}

\* Every traditional result is pushed, also one the vector results hold.
CombineResultsNoDedup(vectorResults, traditionalResults) ==
    vectorResults \o
    [i \in 1..Len(traditionalResults) |->
        [_id |-> traditionalResults[i], score |-> FallbackScore,
         source |-> "traditional"]]

\* The loop over traditionalResults: a result whose _id the vector results do
\* not hold is pushed with score 0.5.
CombineResults(vectorResults, traditionalResults) ==
    LET fresh == SelectSeq(traditionalResults,
                     LAMBDA id : id \notin IdsOf(vectorResults))
    IN  vectorResults \o
        [i \in 1..Len(fresh) |->
            [_id |-> fresh[i], score |-> FallbackScore, source |-> "traditional"]]

\* The sorted list is returned whole, without slice(0, limit).
FuseResultsNoSlice(vectorResults, traditionalResults, limit) ==
    SortByScore(CombineResults(vectorResults, traditionalResults))

\* combinedResults.sort(...).slice(0, limit)
FuseResults(vectorResults, traditionalResults, limit) ==
    Take(SortByScore(CombineResults(vectorResults, traditionalResults)), limit)

NoSearchCall == [pc |-> "idle", limit |-> 1, filters |-> NoFilters]

NoPromise == [state |-> "none", value |-> <<>>]

\* hybridSearch(queryText, filters, limit) up to the await: both searches
\* are started and Promise.all waits for them.
HybridSearchCall ==
    /\ searchCall.pc = "idle"
    /\ \E f \in FilterInputs, l \in 1..MaxLimit :
           searchCall' = [pc |-> "awaiting", limit |-> l, filters |-> f]
    /\ vectorPromise' = [state |-> "pending", value |-> <<>>]
    /\ traditionalPromise' = [state |-> "pending", value |-> <<>>]
    /\ UNCHANGED <<searchResult, storeVars, filterVars, agentVars, restVars>>

\* vectorSearch returns its results.
VectorSearchResolve ==
    /\ vectorPromise.state = "pending"
    /\ \E q \in VectorRankings :
           vectorPromise' =
               [state |-> "fulfilled",
                value |-> VectorSearch(q, searchCall.filters,
                                       VectorShare(searchCall.limit))]
    /\ UNCHANGED <<searchCall, traditionalPromise, searchResult, storeVars, filterVars, agentVars, restVars>>

\* generateEmbedding or the aggregation throws; vectorSearch rethrows.
VectorSearchReject ==
    /\ vectorPromise.state = "pending"
    /\ vectorPromise' = [state |-> "rejected", value |-> <<>>]
    /\ UNCHANGED <<searchCall, traditionalPromise, searchResult, storeVars, filterVars, agentVars, restVars>>

\* traditionalSearch returns its results.
TraditionalSearchResolve ==
    /\ traditionalPromise.state = "pending"
    /\ \E q \in TextMatches :
           traditionalPromise' =
               [state |-> "fulfilled",
                value |-> TraditionalSearch(q, searchCall.filters,
                                            TraditionalShare(searchCall.limit))]
    /\ UNCHANGED <<searchCall, vectorPromise, searchResult, storeVars, filterVars, agentVars, restVars>>

\* The find throws; traditionalSearch rethrows.
TraditionalSearchReject ==
    /\ traditionalPromise.state = "pending"
    /\ traditionalPromise' = [state |-> "rejected", value |-> <<>>]
    /\ UNCHANGED <<searchCall, vectorPromise, searchResult, storeVars, filterVars, agentVars, restVars>>

\* A failed vector search is taken as an empty list and the call returns the
\* traditional results alone.
HybridSearchReturnPartial ==
    /\ searchCall.pc = "awaiting"
    /\ vectorPromise.state \in {"fulfilled", "rejected"}
    /\ traditionalPromise.state = "fulfilled"
    /\ searchResult' = FuseResults(vectorPromise.value,
                                   traditionalPromise.value, searchCall.limit)
    /\ searchCall' = [searchCall EXCEPT !.pc = "returned"]
    /\ UNCHANGED <<vectorPromise, traditionalPromise, storeVars, filterVars, agentVars, restVars>>

\* Promise.all fulfils once both promises have: the results are combined,
\* sorted, cut to limit and returned.
HybridSearchReturn ==
    /\ searchCall.pc = "awaiting"
    /\ vectorPromise.state = "fulfilled"
    /\ traditionalPromise.state = "fulfilled"
    /\ searchResult' = FuseResults(vectorPromise.value,
                                   traditionalPromise.value, searchCall.limit)
    /\ searchCall' = [searchCall EXCEPT !.pc = "returned"]
    /\ UNCHANGED <<vectorPromise, traditionalPromise, storeVars, filterVars, agentVars, restVars>>

\* Promise.all rejects as soon as one promise has: the catch block logs and
\* rethrows, whatever the state of the other promise.
HybridSearchThrow ==
    /\ searchCall.pc = "awaiting"
    /\ vectorPromise.state = "rejected" \/ traditionalPromise.state = "rejected"
    /\ searchCall' = [searchCall EXCEPT !.pc = "thrown"]
    /\ UNCHANGED <<vectorPromise, traditionalPromise, searchResult, storeVars, filterVars, agentVars, restVars>>

(***************************************************************************)
(* RentalModel.buildSearchQuery                                            *)
(***************************************************************************)
MaxParams == 2
MaxIds == 2

ParamKeys ==
    {"ids", "text", "location", "property_type", "room_type", "country",
     "min_price", "max_price", "min_bedrooms", "min_bathrooms",
     "min_accommodates", "superhost_only", "instant_bookable", "min_rating"}

NumericParams ==
    {"min_price", "max_price", "min_bedrooms", "min_bathrooms",
     "min_accommodates", "min_rating"}

\* A 24 character hex string.
OidA ==
    <<"5", "0", "7", "f", "1", "f", "7", "7", "b", "c", "f", "8",
      "6", "c", "d", "7", "9", "9", "4", "3", "9", "0", "1", "1">>

\* The identifiers a caller lists in ids: an object id, decimal numerals
\* (one with a space before it), a numeral with an exponent, a hex numeral
\* and a string that is none of these.
IdTokens ==
    {OidA, <<"1", "2">>, <<" ", "7">>, <<"a", "b">>, <<"1", "e", "3">>,
     <<"0", "x", "1", "0">>}

IdLists == UNION {[1..n -> IdTokens] : n \in 1..MaxIds}

\* ids arrives as an array of strings or as one comma separated string.
\* A caller that holds a single numeric id can also pass it as a number.
IdsValues ==
    {Arr(l) : l \in IdLists} \cup {Str(JoinComma(l)) : l \in IdLists}
    \cup {Num(12)}

ParamValues(k) ==
    CASE k = "ids"              -> IdsValues
      [] k = "text"             -> {Str(Porto)}
      [] k = "location"         -> {Str(Porto), Str(<<>>)}
      [] k = "property_type"    -> {Str(Apartment)}
      [] k = "room_type"        -> {Str(PrivateRoom)}
      [] k = "country"          -> {Str(Portugal)}
      [] k \in NumericParams    ->
             {Str(<<"5", "0">>), Str(<<"a", "b", "c">>), Str(<<"-", "5">>), Str(<<>>),
              Str(<<"0", "x", "1", "f">>)}
      [] k \in {"superhost_only", "instant_bookable"} ->
             {Str(TrueString), Str(<<"f", "a", "l", "s", "e">>)}

NoParams == [k \in ParamKeys |-> Undef]

\* String.prototype.split(',')
RECURSIVE SplitComma(_)
SplitComma(cs) ==
    IF \A i \in 1..Len(cs) : cs[i] # ","
    THEN <<cs>>
    ELSE LET i == CHOOSE x \in 1..Len(cs) :
                      cs[x] = "," /\ \A y \in 1..(x - 1) : cs[y] # ","
         IN  <<SubSeq(cs, 1, i - 1)>> \o SplitComma(SubSeq(cs, i + 1, Len(cs)))

\* ObjectId.isValid on a string: 24 hex characters.
ObjectIdIsValid(cs) ==
    Len(cs) = 24 /\ \A i \in 1..Len(cs) : cs[i] \in HexChars

\* !isNaN(cs): Number(cs) is a number.  Number strips the white space at
\* both ends and reads the empty string as 0; otherwise the text must be,
\* whole, a decimal literal (an optional sign, then Infinity, or digits with
\* an optional fraction and exponent, or a fraction with an optional
\* exponent) or an unsigned 0x, 0o or 0b integer literal.
IsNumericString(cs) ==
    LET text     == Trim(cs)
        unsigned == IF text # <<>> /\ Head(text) \in {"-", "+"}
                    THEN Tail(text) ELSE text
        AllIn(ds, S) == ds # <<>> /\ \A i \in 1..Len(ds) : ds[i] \in S
        After(ds, n) == SubSeq(ds, n + 1, Len(ds))
        Exponent(ds) ==
            \/ ds = <<>>
            \/ /\ Head(ds) \in {"e", "E"}
               /\ AllIn(IF Len(ds) >= 2 /\ ds[2] \in {"-", "+"}
                        THEN After(ds, 2) ELSE After(ds, 1), Digits)
        int      == DigitPrefixLen(unsigned)
        rest     == After(unsigned, int)
        dot      == rest # <<>> /\ Head(rest) = "."
        frac     == IF dot THEN DigitPrefixLen(Tail(rest)) ELSE 0
        tail     == IF dot THEN After(rest, frac + 1) ELSE rest
        Prefixed(marks, S) ==
            /\ Len(text) >= 2 /\ text[1] = "0" /\ text[2] \in marks
            /\ AllIn(After(text, 2), S)
    IN  \/ text = <<>>
        \/ unsigned = <<"I", "n", "f", "i", "n", "i", "t", "y">>
        \/ (int > 0 \/ frac > 0) /\ Exponent(tail)
        \/ Prefixed({"x", "X"}, HexChars)
        \/ Prefixed({"o", "O"}, {"0", "1", "2", "3", "4", "5", "6", "7"})
        \/ Prefixed({"b", "B"}, {"0", "1"})

\* One pass of ids.forEach: the value pushed for an id, an ObjectId into
\* objectIds, anything else into numericIds.
ConvertId(id) ==
    LET trimmedId == Trim(id)
    IN  IF ObjectIdIsValid(trimmedId) THEN ObjectId(trimmedId)
        ELSE IF IsNumericString(trimmedId) THEN ParseIntString(trimmedId)
        ELSE Str(trimmedId)

NoIn == [present |-> FALSE, in |-> <<>>]

InClause(values) ==
    [field |-> "_id", op |-> "$in", in |-> values, regex |-> Undef]

RegexClause(field, v) ==
    [field |-> field, op |-> "$regex", in |-> <<>>, regex |-> v]

\* const query = {}
EmptyQuery ==
    [_id |-> NoIn, or |-> <<>>, text |-> Undef,
     property_type |-> Undef, room_type |-> Undef, address_country |-> Undef,
     price |-> NoRange, bedrooms |-> Undef, bathrooms |-> Undef,
     accommodates |-> Undef, host_is_superhost |-> FALSE,
     instant_bookable |-> FALSE, review_scores_rating |-> Undef]

\* The branch taken when params.ids is set.
IdsQuery(ids) ==
    LET list       == IF ids.t = "array" THEN ids.a ELSE SplitComma(ids.s)
        converted  == [i \in 1..Len(list) |-> ConvertId(list[i])]
        objectIds  == SelectSeq(converted, LAMBDA v : v.t = "ObjectId")
        numericIds == SelectSeq(converted, LAMBDA v : v.t # "ObjectId")
    IN  IF objectIds # <<>> /\ numericIds # <<>>
        THEN [EmptyQuery EXCEPT !.or = <<InClause(objectIds), InClause(numericIds)>>]
        ELSE IF objectIds # <<>>
        THEN [EmptyQuery EXCEPT !._id = [present |-> TRUE, in |-> objectIds]]
        ELSE IF numericIds # <<>>
        THEN [EmptyQuery EXCEPT !._id = [present |-> TRUE, in |-> numericIds]]
        ELSE EmptyQuery

\* { $gte: parseInt(v) } when v is truthy.
GteOf(v) == IF Truthy(v) THEN ParseInt(v) ELSE Undef

\* query.price gets a lower bound 0 whenever min_price sets none.
FiltersQueryDefaultPrice(params) ==
    [EmptyQuery EXCEPT
        !.price = [present |-> TRUE,
                   gte |-> IF Truthy(params["min_price"])
                           THEN ParseInt(params["min_price"]) ELSE Num(0),
                   lte |-> GteOf(params["max_price"])]]

\* The filters read after the ids branch.
FiltersQuery(params) ==
    [_id |-> NoIn,
     or |-> IF Truthy(params["location"])
            THEN <<RegexClause("address.neighbourhood", params["location"]),
                   RegexClause("address.market", params["location"]),
                   RegexClause("address.country", params["location"])>>
            ELSE <<>>,
     text |-> IF Truthy(params["text"]) THEN params["text"] ELSE Undef,
     property_type |->
         IF Truthy(params["property_type"]) THEN params["property_type"] ELSE Undef,
     room_type |->
         IF Truthy(params["room_type"]) THEN params["room_type"] ELSE Undef,
     address_country |->
         IF Truthy(params["country"]) THEN params["country"] ELSE Undef,
     price |->
         IF Truthy(params["min_price"]) \/ Truthy(params["max_price"])
         THEN [present |-> TRUE,
               gte |-> GteOf(params["min_price"]),
               lte |-> GteOf(params["max_price"])]
         ELSE NoRange,
     bedrooms |-> GteOf(params["min_bedrooms"]),
     bathrooms |-> GteOf(params["min_bathrooms"]),
     accommodates |-> GteOf(params["min_accommodates"]),
     host_is_superhost |-> params["superhost_only"] = Str(TrueString),
     instant_bookable |-> params["instant_bookable"] = Str(TrueString),
     review_scores_rating |-> GteOf(params["min_rating"])]

\* buildSearchQuery(params)
\* params.ids.split(',') on a truthy value that is neither an array nor a
\* string: split is not a function, a TypeError.
BuildSearchQueryThrows(params) ==
    Truthy(params["ids"]) /\ params["ids"].t \notin {"array", "string"}

BuildSearchQuery(params) ==
    IF Truthy(params["ids"])
    THEN IdsQuery(params["ids"])
    ELSE FiltersQuery(params)

NoQueryCall == [pc |-> "idle", params |-> NoParams]

\* The request layer reads one more parameter of the query string into the
\* raw parameter map.
ReceiveParam ==
    /\ queryCall.pc = "idle"
    /\ Cardinality({k \in ParamKeys : queryCall.params[k] # Undef}) < MaxParams
    /\ \E k \in ParamKeys :
           /\ queryCall.params[k] = Undef
           /\ \E v \in ParamValues(k) :
                  queryCall' = [queryCall EXCEPT !.params[k] = v]
    /\ UNCHANGED <<builtQuery, storeVars, hybridVars, agentVars, restVars>>

\* The call of buildSearchQuery on the raw parameter map.
BuildSearchQueryCall ==
    /\ queryCall.pc = "idle"
    /\ IF BuildSearchQueryThrows(queryCall.params)
       THEN /\ queryCall' = [queryCall EXCEPT !.pc = "thrown"]
            /\ UNCHANGED builtQuery
       ELSE /\ queryCall' = [queryCall EXCEPT !.pc = "returned"]
            /\ builtQuery' = BuildSearchQuery(queryCall.params)
    /\ UNCHANGED <<storeVars, hybridVars, agentVars, restVars>>

(***************************************************************************)
(* JSON text of tool-call arguments.  The payloads are the texts           *)
(* JSON.stringify writes for objects of strings, integers, booleans, null  *)
(* and nested objects, and the cuts of such texts; they hold no escape     *)
(* sequence, fraction, exponent or array.                                  *)
(***************************************************************************)
\* value[key] for an object; a primitive has none of the keys used here.
GetProp(value, key) ==
    IF value.t = "object" /\ \E i \in 1..Len(value.a) : value.a[i].k = key
    THEN value.a[CHOOSE i \in 1..Len(value.a) :
                    /\ value.a[i].k = key
                    /\ \A j \in 1..Len(value.a) : value.a[j].k = key => j <= i].v
    ELSE Undef

DigitChars == <<"0", "1", "2", "3", "4", "5", "6", "7", "8", "9">>

RECURSIVE NatChars(_)
NatChars(n) ==
    IF n < 10 THEN <<DigitChars[n + 1]>>
    ELSE NatChars(n \div 10) \o <<DigitChars[(n % 10) + 1]>>

FalseString == <<"f", "a", "l", "s", "e">>
NullString  == <<"n", "u", "l", "l">>

RECURSIVE JsonStringify(_)
JsonStringify(value) ==
    LET Member(p) == <<"\"">> \o p.k \o <<"\"", ":">> \o JsonStringify(p.v)
        Members[i \in 0..Len(value.a)] ==
            IF i = 0 THEN <<>>
            ELSE IF i = 1 THEN Member(value.a[1])
            ELSE Members[i - 1] \o <<",">> \o Member(value.a[i])
    IN  CASE value.t = "string"  -> <<"\"">> \o value.s \o <<"\"">>
          [] value.t = "number"  ->
                 IF value.n < 0 THEN <<"-">> \o NatChars(0 - value.n)
                 ELSE NatChars(value.n)
          [] value.t = "boolean" -> IF value.n = 1 THEN TrueString ELSE FalseString
          [] value.t = "object"  -> <<"{">> \o Members[Len(value.a)] \o <<"}">>
          [] OTHER               -> NullString

JsonFail == [ok |-> FALSE, value |-> Undef, rest |-> <<>>]

JsonOk(value, rest) == [ok |-> TRUE, value |-> value, rest |-> rest]

HasPrefix(cs, prefix) ==
    Len(cs) >= Len(prefix) /\ SubSeq(cs, 1, Len(prefix)) = prefix

Drop(cs, n) == SubSeq(cs, n + 1, Len(cs))

\* The characters of a string literal after its opening quote.
JsonParseString(cs) ==
    IF \E i \in 1..Len(cs) : cs[i] = "\""
    THEN LET close == CHOOSE i \in 1..Len(cs) :
                          cs[i] = "\"" /\ \A j \in 1..(i - 1) : cs[j] # "\""
         IN  JsonOk(Str(SubSeq(cs, 1, close - 1)), Drop(cs, close))
    ELSE JsonFail

\* The white space JSON.parse accepts between tokens.
RECURSIVE SkipJsonSpaces(_)
SkipJsonSpaces(cs) ==
    IF cs # <<>> /\ Head(cs) \in {" ", "\t", "\n", "\r"}
    THEN SkipJsonSpaces(Tail(cs)) ELSE cs

\* An integer: an optional minus sign, then digits without a leading zero.
JsonParseNumber(cs) ==
    LET negative == cs # <<>> /\ Head(cs) = "-"
        digits   == IF negative THEN Tail(cs) ELSE cs
        len      == DigitPrefixLen(digits)
        value    == DigitPrefixValue(digits, 10, 0)
    IN  IF len = 0 \/ (len > 1 /\ Head(digits) = "0")
        THEN JsonFail
        ELSE JsonOk(Num(IF negative THEN 0 - value ELSE value), Drop(digits, len))

RECURSIVE JsonParseValue(_), JsonParseMembers(_, _)
\* A value, after optional white space.
JsonParseValue(text) ==
    LET cs == SkipJsonSpaces(text)
    IN  IF cs = <<>> THEN JsonFail
        ELSE IF Head(cs) = "\"" THEN JsonParseString(Tail(cs))
        ELSE IF Head(cs) = "{"
             THEN IF HasPrefix(SkipJsonSpaces(Tail(cs)), <<"}">>)
                  THEN JsonOk(Obj(<<>>), Tail(SkipJsonSpaces(Tail(cs))))
                  ELSE JsonParseMembers(Tail(cs), <<>>)
        ELSE IF HasPrefix(cs, TrueString) THEN JsonOk(Bool(TRUE), Drop(cs, 4))
        ELSE IF HasPrefix(cs, FalseString) THEN JsonOk(Bool(FALSE), Drop(cs, 5))
        ELSE IF HasPrefix(cs, NullString) THEN JsonOk(Null, Drop(cs, 4))
        ELSE JsonParseNumber(cs)

\* The members of an object after '{' or ',': "key" : value, followed by
\* ',' and more members, or by '}'.
JsonParseMembers(text, props) ==
    LET cs    == SkipJsonSpaces(text)
        key   == IF cs # <<>> /\ Head(cs) = "\""
                 THEN JsonParseString(Tail(cs)) ELSE JsonFail
        colon == SkipJsonSpaces(key.rest)
        val   == IF key.ok /\ colon # <<>> /\ Head(colon) = ":"
                 THEN JsonParseValue(Tail(colon)) ELSE JsonFail
        after == SkipJsonSpaces(val.rest)
        read  == Append(props, Prop(key.value.s, val.value))
    IN  IF ~val.ok \/ after = <<>> THEN JsonFail
        ELSE IF Head(after) = "}" THEN JsonOk(Obj(read), Tail(after))
        ELSE IF Head(after) = "," THEN JsonParseMembers(Tail(after), read)
        ELSE JsonFail

\* JSON.parse(text): [ok |-> FALSE] stands for the SyntaxError it throws.
JsonParse(text) ==
    LET r == JsonParseValue(text)
    IN  IF r.ok /\ SkipJsonSpaces(r.rest) = <<>>
        THEN [ok |-> TRUE, value |-> r.value]
        ELSE [ok |-> FALSE, value |-> Undef]

(***************************************************************************)
(* RentalRAGAgent: tool-call extraction and search metadata                *)
(***************************************************************************)
\* Property names of the tool arguments.
QueryKey == <<"q", "u", "e", "r", "y">>
FiltersKey == <<"f", "i", "l", "t", "e", "r", "s">>
LimitKey == <<"l", "i", "m", "i", "t">>
PropertyIdKey == <<"p", "r", "o", "p", "e", "r", "t", "y", "I", "d">>
IncludeDetailsKey == <<"i", "n", "c", "l", "u", "d", "e", "D", "e", "t", "a", "i", "l", "s">>

\* Texts: queries, the user message, the markers chat looks for in the final
\* output, and final outputs.
BeachHouse == <<"b", "e", "a", "c", "h", " ", "h", "o", "u", "s", "e">>
BeachHouseInPorto == <<"b", "e", "a", "c", "h", " ", "h", "o", "u", "s", "e", " ", "i", "n", " ", "P", "o", "r", "t", "o">>
ShowMeRentals == <<"s", "h", "o", "w", " ", "m", "e", " ", "r", "e", "n", "t", "a", "l", "s">>
MarkerStarred == <<"*", "s", "e", "a", "r", "c", "h", "_", "p", "e", "r", "f", "o", "r", "m", "e", "d", ":", " ", "t", "r", "u", "e", "*">>
MarkerPlain == <<"s", "e", "a", "r", "c", "h", "_", "p", "e", "r", "f", "o", "r", "m", "e", "d", ":", " ", "t", "r", "u", "e">>
MarkerSentence == <<"S", "e", "a", "r", "c", "h", " ", "p", "e", "r", "f", "o", "r", "m", "e", "d", ":", " ", "t", "r", "u", "e">>
HereAreSomeRentals == <<"H", "e", "r", "e", " ", "a", "r", "e", " ", "s", "o", "m", "e", " ", "r", "e", "n", "t", "a", "l", "s", ".">>
FoundSearchPerformed == <<"F", "o", "u", "n", "d", " ", "2", " ", "r", "e", "n", "t", "a", "l", "s", ".", " ", "s", "e", "a", "r", "c", "h", "_", "p", "e", "r", "f", "o", "r", "m", "e", "d", ":", " ", "t", "r", "u", "e">>
SentenceSearchPerformed == <<"S", "e", "a", "r", "c", "h", " ", "p", "e", "r", "f", "o", "r", "m", "e", "d", ":", " ", "t", "r", "u", "e", ",", " ", "2", " ", "r", "e", "n", "t", "a", "l", "s", ".">>
LowerCaseSentence == <<"s", "e", "a", "r", "c", "h", " ", "p", "e", "r", "f", "o", "r", "m", "e", "d", ":", " ", "t", "r", "u", "e">>

\* The characters of the name of a filter.
FilterKeyChars(k) ==
    CASE k = "property_type" -> <<"p", "r", "o", "p", "e", "r", "t", "y", "_", "t", "y", "p", "e">>
      [] k = "room_type" -> <<"r", "o", "o", "m", "_", "t", "y", "p", "e">>
      [] k = "min_price" -> <<"m", "i", "n", "_", "p", "r", "i", "c", "e">>
      [] k = "max_price" -> <<"m", "a", "x", "_", "p", "r", "i", "c", "e">>
      [] k = "min_bedrooms" -> <<"m", "i", "n", "_", "b", "e", "d", "r", "o", "o", "m", "s">>
      [] k = "min_accommodates" -> <<"m", "i", "n", "_", "a", "c", "c", "o", "m", "m", "o", "d", "a", "t", "e", "s">>
      [] k = "superhost_only" -> <<"s", "u", "p", "e", "r", "h", "o", "s", "t", "_", "o", "n", "l", "y">>
      [] k = "country" -> <<"c", "o", "u", "n", "t", "r", "y">>
      [] k = "location" -> <<"l", "o", "c", "a", "t", "i", "o", "n">>

\* String.prototype.includes
Includes(cs, sub) ==
    \E i \in 1..(Len(cs) - Len(sub) + 1) : SubSeq(cs, i, i + Len(sub) - 1) = sub

\* a || b
OrElse(a, b) == IF Truthy(a) THEN a ELSE b

\* An item of result.newItems: its type and its rawItem { name, arguments }.
ToolCallItem(name, arguments) ==
    [type |-> "tool_call_item", name |-> name, arguments |-> arguments]

ToolCallOutputItem(name) ==
    [type |-> "tool_call_output_item", name |-> name, arguments |-> Undef]

\* The record extractToolCallsFromResult pushes for one tool_call_item:
\* arguments that are a string are parsed, and kept as they are when
\* JSON.parse throws.
\* The arguments left as the runtime handed them over.
ParsedArgumentsRaw(arguments) == arguments

ParsedArguments(arguments) ==
    IF arguments.t = "string" /\ JsonParse(arguments.s).ok
    THEN JsonParse(arguments.s).value
    ELSE arguments

ToolCallRecord(item) ==
    [name |-> item.name, arguments |-> ParsedArguments(item.arguments)]

\* extractToolCallsFromResult(result): the records of the tool_call_item
\* entries of result.newItems in order.  The method returns null for an
\* empty list; null is [isNull |-> TRUE].
RECURSIVE ToolCallRecords(_)
\* The records collected with the latest call first.
ToolCallRecordsLatestFirst(newItems) ==
    IF newItems = <<>> THEN <<>>
    ELSE IF Head(newItems).type = "tool_call_item"
         THEN ToolCallRecords(Tail(newItems)) \o <<ToolCallRecord(Head(newItems))>>
         ELSE ToolCallRecords(Tail(newItems))

ToolCallRecords(newItems) ==
    IF newItems = <<>> THEN <<>>
    ELSE IF Head(newItems).type = "tool_call_item"
         THEN <<ToolCallRecord(Head(newItems))>> \o ToolCallRecords(Tail(newItems))
         ELSE ToolCallRecords(Tail(newItems))

ExtractToolCallsFromResult(newItems) ==
    LET toolCalls == ToolCallRecords(newItems)
    IN  [isNull |-> toolCalls = <<>>, list |-> toolCalls]

RECURSIVE FilterByName(_, _)
FilterByName(toolCalls, name) ==
    IF toolCalls = <<>> THEN <<>>
    ELSE IF Head(toolCalls).name = name
         THEN <<Head(toolCalls)>> \o FilterByName(Tail(toolCalls), name)
         ELSE FilterByName(Tail(toolCalls), name)

\* The metadata object; a key that is Undef (or not present) is a key the
\* object does not have.
NoIds == [present |-> FALSE, ids |-> <<>>]

EmptyMetadata ==
    [search_type                |-> Undef,
     search_query               |-> Undef,
     search_filters             |-> Undef,
     search_limit               |-> Undef,
     rental_ids                 |-> NoIds,
     property_details_requested |-> FALSE,
     property_ids               |-> NoIds]

DefaultSearchLimit == 5

RentalSearch == <<"r", "e", "n", "t", "a", "l", "_", "s", "e", "a", "r", "c", "h">>

\* The first searchRentals call of the list.
LastSearchFirstWins(searchCalls) == searchCalls[1]

\* The search the metadata reports: the last searchRentals call of the list.
LastSearch(searchCalls) == searchCalls[Len(searchCalls)]

\* extractSearchMetadata(toolCalls, userMessage), reading
\* this.lastSearchResults.
ExtractSearchMetadata(toolCalls, userMessage, searchResults) ==
    IF toolCalls.isNull \/ toolCalls.list = <<>>
    THEN EmptyMetadata
    ELSE LET searchCalls  == FilterByName(toolCalls.list, "searchRentals")
             detailsCalls == FilterByName(toolCalls.list, "getPropertyDetails")
             arguments    == LastSearch(searchCalls).arguments
             withSearch ==
                 IF searchCalls # <<>>
                 THEN [EmptyMetadata EXCEPT
                          !.search_type    = Str(RentalSearch),
                          !.search_query   = OrElse(GetProp(arguments, QueryKey), userMessage),
                          !.search_filters = OrElse(GetProp(arguments, FiltersKey), Obj(<<>>)),
                          !.search_limit   = OrElse(GetProp(arguments, LimitKey),
                                                    Num(DefaultSearchLimit)),
                          !.rental_ids     =
                              IF searchResults.defined
                              THEN [present |-> TRUE,
                                    ids |-> [i \in 1..Len(searchResults.list) |->
                                                searchResults.list[i]._id]]
                              ELSE NoIds]
                 ELSE EmptyMetadata
         IN  IF detailsCalls # <<>>
             THEN [withSearch EXCEPT
                      !.property_details_requested = TRUE,
                      !.property_ids =
                          [present |-> TRUE,
                           ids |-> [i \in 1..Len(detailsCalls) |->
                                       GetProp(detailsCalls[i].arguments, PropertyIdKey)]]]
             ELSE withSearch

\* Only searchRentals counted as a search.
SearchPerformedSearchOnly(toolCalls) ==
    \E i \in 1..Len(toolCalls.list) : toolCalls.list[i].name = "searchRentals"

\* extractedToolCalls?.some(call => call.name === 'searchRentals' ||
\* call.name === 'getPropertyDetails') || false
SearchPerformed(toolCalls) ==
    \E i \in 1..Len(toolCalls.list) :
        toolCalls.list[i].name \in {"searchRentals", "getPropertyDetails"}

\* The search indicators chat looks for in result.finalOutput, which may be
\* undefined.
MessageHasSearchResults(finalOutput, searchPerformed) ==
    \/ finalOutput.t = "string" /\ Includes(finalOutput.s, MarkerStarred)
    \/ finalOutput.t = "string" /\ Includes(finalOutput.s, MarkerPlain)
    \/ finalOutput.t = "string" /\ Includes(finalOutput.s, MarkerSentence)
    \/ searchPerformed

NoResponse ==
    [returned |-> FALSE, success |-> FALSE, message |-> Undef,
     toolCalls |-> <<>>, search_performed |-> FALSE, metadata |-> EmptyMetadata]

\* What chat returns once run(...) has resolved.
ChatResponse(newItems, finalOutput, userMessage, searchResults) ==
    LET extractedToolCalls == ExtractToolCallsFromResult(newItems)
    IN  [returned  |-> TRUE,
         success   |-> TRUE,
         message   |-> finalOutput,
         toolCalls |-> extractedToolCalls.list,
         search_performed |->
             MessageHasSearchResults(finalOutput, SearchPerformed(extractedToolCalls)),
         metadata  |-> ExtractSearchMetadata(extractedToolCalls, userMessage,
                                             searchResults)]

\* The message of the answer chat returns from its catch block.
SorryEncounteredError ==
    <<"I", "'", "m", " ", "s", "o", "r", "r", "y", ",", " ", "I", " ", "e",
      "n", "c", "o", "u", "n", "t", "e", "r", "e", "d", " ", "a", "n", " ",
      "e", "r", "r", "o", "r", " ", "w", "h", "i", "l", "e", " ", "p", "r",
      "o", "c", "e", "s", "s", "i", "n", "g", " ", "y", "o", "u", "r", " ",
      "r", "e", "q", "u", "e", "s", "t", ".", " ", "P", "l", "e", "a", "s",
      "e", " ", "t", "r", "y", " ", "a", "g", "a", "i", "n", ".">>

\* What chat returns from its catch block.
ChatFailure ==
    [returned |-> TRUE, success |-> FALSE, message |-> Str(SorryEncounteredError),
     toolCalls |-> <<>>, search_performed |-> FALSE, metadata |-> EmptyMetadata]

(***************************************************************************)
(* Chat turns: ChatController.handleChatMessage / handleStreamChat and     *)
(* RentalRAGAgent.chat                                                     *)
(***************************************************************************)
Turns == {1, 2}

UserIds == {"u1", "u2"}

\* userId = null and sessionId = null
NullId == "null"

\* this.generateSessionId(): an id no other turn has.
GenerateSessionId(t) == IF t = 1 THEN "g1" ELSE "g2"

\* hybridSearch(query, filters, limit) on one answer of the indexes: the
\* ranking of the vector index and the documents the text search matches.
HybridSearchResults(answer, filters, limit) ==
    FuseResults(VectorSearch(answer.q, filters, VectorShare(limit)),
                TraditionalSearch(answer.m, filters, TraditionalShare(limit)),
                limit)

\* The filters object of a tool call as the map hybridSearch reads.
FiltersOf(filters) == [k \in FilterKeys |-> GetProp(filters, FilterKeyChars(k))]

NoResults == [ran |-> FALSE, ids |-> <<>>]

NoPending == [role |-> "user", error |-> FALSE]

IdleTurn ==
    [pc          |-> "idle",
     kind        |-> "chat",
     sessionId   |-> NullId,
     userId      |-> NullId,
     badContext  |-> FALSE,
     conversation_history |-> <<>>,
     userMessage |-> Undef,
     before      |-> <<>>,
     historyToUse |-> <<>>,
     pending     |-> NoPending,
     at          |-> 0,
     next        |-> "idle",
     added       |-> <<>>,
     newItems    |-> <<>>,
     savedFor    |-> <<>>,
     results     |-> NoResults,
     history     |-> <<>>,
     run         |-> "none",
     response    |-> NoResponse,
     outcome     |-> "none"]

ToolCallsMade(turn) ==
    Cardinality({i \in 1..Len(turn.newItems) :
                    turn.newItems[i].type = "tool_call_item"})

\* chat(userMessage, conversationHistory, userId) up to 'await run(...)':
\* the user id is left in this.currentUserId.
\* The history without the push of the current user message.
RunHistoryWithoutCurrent(conversationHistory, current) ==
    LET users == SelectSeq(conversationHistory, LAMBDA msg : msg.role = "user")
    IN  [i \in 1..Len(users) |-> [id |-> users[i].id, current |-> FALSE]]

\* The history chat hands to run: user(msg.content) for the messages of
\* role 'user' of conversationHistory (the others are skipped), then
\* user(userMessage).
RunHistory(conversationHistory, current) ==
    LET users == SelectSeq(conversationHistory, LAMBDA msg : msg.role = "user")
    IN  [i \in 1..Len(users) |-> [id |-> users[i].id, current |-> FALSE]]
        \o <<[id |-> current, current |-> TRUE]>>

ChatBegin(t) ==
    /\ turns[t].pc = "chat"
    /\ currentUserId' = turns[t].userId
    /\ turns' = [turns EXCEPT ![t].pc = "running",
                              ![t].history = RunHistory(turns[t].historyToUse, 10 * t + 1)]
    /\ UNCHANGED <<lastSearchResults, storeUp, storeVars, hybridVars, filterVars, restVars>>

\* The model calls a tool inside run(...): the call is recorded in
\* result.newItems with the text of its arguments.
RunToolCall(t, name, payload) ==
    /\ turns[t].pc = "running"
    /\ ToolCallsMade(turns[t]) < MaxToolCalls
    /\ turns' = [turns EXCEPT
           ![t].pc = "tool",
           ![t].newItems = Append(@, ToolCallItem(name, Str(payload)))]
    /\ UNCHANGED <<currentUserId, lastSearchResults, storeUp,
                   storeVars, hybridVars, filterVars, restVars>>

\* The runtime parses the arguments of the call and executes the tool; it
\* cannot execute a tool whose arguments are not JSON, and reports the
\* error to the model.  Either way the output is recorded in newItems.
RunToolExecute(t, answer) ==
    LET item   == turns[t].newItems[Len(turns[t].newItems)]
        parsed == JsonParse(item.arguments.s)
        output == [turns EXCEPT
                      ![t].pc = "running",
                      ![t].newItems = Append(@, ToolCallOutputItem(item.name))]
    IN  /\ turns[t].pc = "tool"
        /\ IF ~parsed.ok \/ item.name = "getPropertyDetails"
           THEN /\ turns' = output
                /\ UNCHANGED <<currentUserId, lastSearchResults>>
           ELSE IF item.name = "searchRentals"
           THEN LET filters == FiltersOf(GetProp(parsed.value, FiltersKey))
                    limit   == IF GetProp(parsed.value, LimitKey) = Undef
                               THEN DefaultSearchLimit
                               ELSE GetProp(parsed.value, LimitKey).n
                    results == IF answer.threw THEN <<>>
                               ELSE HybridSearchResults(answer, filters, limit)
                IN  /\ lastSearchResults' = [defined |-> TRUE, list |-> results]
                    /\ turns' = [output EXCEPT
                           ![t].results =
                               [ran |-> TRUE,
                                ids |-> [i \in 1..Len(results) |-> results[i]._id]]]
                    /\ UNCHANGED currentUserId
           ELSE /\ turns' = [output EXCEPT ![t].savedFor = Append(@, currentUserId)]
                /\ UNCHANGED <<currentUserId, lastSearchResults>>
        /\ UNCHANGED <<storeUp, storeVars, hybridVars, filterVars, restVars>>

\* run(...) resolves with finalOutput and chat builds its answer.
ChatReturn(t, finalOutput) ==
    /\ turns[t].pc = "running"
    /\ turns[t].kind = "chat"
    /\ turns' = [turns EXCEPT
           ![t].pc = "response",
           ![t].run = "resolved",
           ![t].response = ChatResponse(turns[t].newItems, finalOutput,
                                        turns[t].userMessage, lastSearchResults)]
    /\ UNCHANGED <<currentUserId, lastSearchResults, storeUp,
                   storeVars, hybridVars, filterVars, restVars>>

\* run(...) rejects (the model runtime fails) and chat returns from its
\* catch block.
ChatCatch(t) ==
    /\ turns[t].pc = "running"
    /\ turns[t].kind = "chat"
    /\ turns' = [turns EXCEPT ![t].pc = "response", ![t].run = "rejected",
                              ![t].response = ChatFailure]
    /\ UNCHANGED <<currentUserId, lastSearchResults, storeUp,
                   storeVars, hybridVars, filterVars, restVars>>

DefaultHistoryLimit == 20

\* The message addMessage builds for a turn: a new ObjectId per call.
TurnMessage(t, turn) ==
    NewMessage(10 * t + Len(turn.added) + 1, turn.pending.role,
               [error |-> turn.pending.error])

\* The conversation_history of a request: none, or one earlier user message.
RequestHistories == {<<>>, <<NewMessage(900, "user", [error |-> FALSE])>>}

\* handleChatMessage / handleStreamChat up to their first await.  The
\* session id is generated when none is given.  With no conversation_history
\* in the request the history is read from the store, and the step ends
\* with the answer of the store to the findOne of getConversationHistory
\* (historyToUse stays [] when the read fails).  With a conversation_history
\* nothing is read: the handler goes on to call addMessage with the user
\* message, which reads the clock.
HandleChatMessage(t, kind, sessionId, userId, badContext, conversation_history) ==
    LET sid == IF sessionId = NullId THEN GenerateSessionId(t) ELSE sessionId
        started == [IdleTurn EXCEPT
                       !.kind         = kind,
                       !.sessionId    = sid,
                       !.userId       = userId,
                       !.badContext   = badContext,
                       !.userMessage  = Str(ShowMeRentals),
                       !.conversation_history = conversation_history]
    IN  /\ turns[t].pc = "idle"
        /\ turns' = [turns EXCEPT ![t] =
               IF conversation_history # <<>>
               THEN [started EXCEPT
                        !.pc           = "addMessage",
                        !.historyToUse = conversation_history,
                        !.pending      = [role |-> "user", error |-> FALSE],
                        !.at           = now,
                        !.next         = "enhance"]
               ELSE [started EXCEPT
                        !.pc           = "storeUserMessage",
                        !.before       = StoredMessages(conversations, sid),
                        !.historyToUse =
                            IF storeUp
                            THEN HistoryMessages(conversations, sid, DefaultHistoryLimit)
                            ELSE <<>>]]
        /\ UNCHANGED <<currentUserId, lastSearchResults, storeUp,
                       storeVars, hybridVars, filterVars, restVars>>

\* The handler goes on after the history was read: addMessage is called
\* with the user message and reads the clock.
StoreUserMessage(t) ==
    /\ turns[t].pc = "storeUserMessage"
    /\ turns' = [turns EXCEPT
           ![t].pc      = "addMessage",
           ![t].pending = [role |-> "user", error |-> FALSE],
           ![t].at      = now,
           ![t].next    = "enhance"]
    /\ UNCHANGED <<currentUserId, lastSearchResults, storeUp,
                   storeVars, hybridVars, filterVars, restVars>>

\* The updateOne with upsert of the addMessage the turn called; turn.at is
\* the day addMessage read when it built updateDoc.  A store that does not
\* answer makes addMessage return success: false, which the controller does
\* not look at.
TurnAddMessage(t) ==
    LET turn == turns[t]
        done(success) == [turns EXCEPT
                             ![t].pc = turn.next,
                             ![t].added = Append(@, [role    |-> turn.pending.role,
                                                     error   |-> turn.pending.error,
                                                     success |-> success])]
    IN  /\ turn.pc = "addMessage"
        /\ IF ~storeUp
           THEN turns' = done(FALSE) /\ UNCHANGED conversations
           ELSE IF MatchingDocs(conversations, turn.sessionId) # {}
           THEN /\ conversations' =
                       [conversations EXCEPT
                           ![FirstMatch(conversations, turn.sessionId)] =
                               ApplyUpdateDoc(@, TurnMessage(t, turn), turn.at)]
                /\ turns' = done(TRUE)
           ELSE /\ turns' = [turns EXCEPT ![t].pc = "addMessageInsert"]
                /\ UNCHANGED conversations
        /\ UNCHANGED <<calls, historyResult, currentUserId, lastSearchResults,
                       storeUp, hybridVars, filterVars, restVars>>

\* The insert half of the upsert.
TurnAddMessageUpsertInsert(t) ==
    LET turn == turns[t]
    IN  /\ turn.pc = "addMessageInsert"
        /\ conversations' = Append(conversations,
               UpsertedDoc(turn.sessionId, TurnMessage(t, turn), turn.at))
        /\ turns' = [turns EXCEPT
               ![t].pc = turn.next,
               ![t].added = Append(@, [role    |-> turn.pending.role,
                                       error   |-> turn.pending.error,
                                       success |-> TRUE])]
        /\ UNCHANGED <<calls, historyResult, currentUserId, lastSearchResults,
                       storeUp, hybridVars, filterVars, restVars>>

\* The catch block of the controller: the error is logged to the
\* conversation; handleChatMessage then returns a failure and
\* handleStreamChat throws the error again.
CatchBlock(turn) ==
    [turn EXCEPT
        !.pc      = "addMessage",
        !.pending = [role |-> "assistant", error |-> TRUE],
        !.at      = now,
        !.next    = IF turn.kind = "stream" THEN "rethrow" ELSE "returnFailure"]

\* The message is enhanced with the context, then the agent is called.
\* handleChatMessage also reads context.current_property, and a
\* current_property that has no features makes it throw; handleStreamChat
\* does not read current_property.
EnhanceMessage(t) ==
    /\ turns[t].pc = "enhance"
    /\ turns' = [turns EXCEPT ![t] =
           IF turns[t].badContext /\ turns[t].kind = "chat"
           THEN CatchBlock(turns[t])
           ELSE [turns[t] EXCEPT
                    !.pc = IF turns[t].kind = "stream" THEN "streamChat" ELSE "chat"]]
    /\ UNCHANGED <<currentUserId, lastSearchResults, storeUp,
                   storeVars, hybridVars, filterVars, restVars>>

\* rentalRAGAgent.streamChat returns the stream and handleStreamChat
\* returns { success: true, stream }.  streamChat does not set
\* this.currentUserId, and the streamed run goes on after the return: the
\* model may still call tools while the stream is read.
StreamChatReturn(t) ==
    /\ turns[t].pc = "streamChat"
    /\ turns' = [turns EXCEPT ![t].pc = "running", ![t].outcome = "success"]
    /\ UNCHANGED <<currentUserId, lastSearchResults, storeUp,
                   storeVars, hybridVars, filterVars, restVars>>

\* The streamed run ends.
StreamEnd(t) ==
    /\ turns[t].pc = "running"
    /\ turns[t].kind = "stream"
    /\ turns' = [turns EXCEPT ![t].pc = "done"]
    /\ UNCHANGED <<currentUserId, lastSearchResults, storeUp,
                   storeVars, hybridVars, filterVars, restVars>>

\* rentalRAGAgent.streamChat throws (the model runtime fails).
StreamChatThrow(t) ==
    /\ turns[t].pc = "streamChat"
    /\ turns' = [turns EXCEPT ![t] = CatchBlock(@)]
    /\ UNCHANGED <<currentUserId, lastSearchResults, storeUp,
                   storeVars, hybridVars, filterVars, restVars>>

\* handleChatMessage after rentalRAGAgent.chat returned: the error response
\* or the assistant response is handed to addMessage.
HandleResponse(t) ==
    /\ turns[t].pc = "response"
    /\ turns' = [turns EXCEPT
           ![t].pc      = "addMessage",
           ![t].pending = [role |-> "assistant", error |-> ~turns[t].response.success],
           ![t].at      = now,
           ![t].next    = IF turns[t].response.success
                          THEN "addToSearchHistory" ELSE "returnFailure"]
    /\ UNCHANGED <<currentUserId, lastSearchResults, storeUp,
                   storeVars, hybridVars, filterVars, restVars>>

\* The user whose document userProfile is.
ProfileOwner == "u1"

\* handleChatMessage once the assistant message is stored: for an
\* authenticated user whose answer reports a search, trackUserActivity, which
\* sets last_search_performed and the fields of its metadata in the profile
\* and increments memory_stats.total_searches, then addToSearchHistory(userId,
\* message, filters).  Both swallow their errors: an update the store does
\* not answer, like the update of another user, leaves the document as it is.
\* The step ends when the store has applied the $push of addToSearchHistory.
\* For any other request nothing is awaited: the handler goes on to call
\* updateConversationMetadata, which reads the clock.
TurnAddToSearchHistory(t) ==
    LET turn == turns[t]
        tracked == turn.userId # NullId /\ turn.response.search_performed
    IN  /\ turn.pc = "addToSearchHistory"
        /\ userProfile' =
               IF tracked /\ turn.userId = ProfileOwner /\ storeUp
               THEN SearchHistoryPushed(userProfile)
               ELSE userProfile
        /\ turns' = IF tracked
                     THEN [turns EXCEPT ![t].pc = "callUpdateMetadata"]
                     ELSE [turns EXCEPT ![t].pc = "updateMetadata", ![t].at = now]
        /\ UNCHANGED <<currentUserId, lastSearchResults, storeUp, storeVars,
                       hybridVars, filterVars, now, sweepResult, saveCalls>>

\* The handler goes on after addToSearchHistory returned:
\* updateConversationMetadata is called and reads the clock.
CallUpdateConversationMetadata(t) ==
    /\ turns[t].pc = "callUpdateMetadata"
    /\ turns' = [turns EXCEPT ![t].pc = "updateMetadata", ![t].at = now]
    /\ UNCHANGED <<currentUserId, lastSearchResults, storeUp,
                   storeVars, hybridVars, filterVars, restVars>>

\* updateConversationMetadata(sessionId, { ..., toolCallsInSession, ... }) at
\* the store, with the day the call read in turn.at; then handleChatMessage
\* returns { success: true, ... }.
TurnUpdateMetadata(t) ==
    LET turn  == turns[t]
        patch == [totalMessages      |-> Undef,
                  toolCallsInSession |-> Num(Len(turn.response.toolCalls))]
    IN  /\ turn.pc = "updateMetadata"
        /\ conversations' =
               IF storeUp /\ MatchingDocs(conversations, turn.sessionId) # {}
               THEN [conversations EXCEPT
                        ![FirstMatch(conversations, turn.sessionId)] =
                            ApplyMetadataSet(@, patch, turn.at)]
               ELSE conversations
        /\ turns' = [turns EXCEPT ![t].pc = "done", ![t].outcome = "success"]
        /\ UNCHANGED <<calls, historyResult, currentUserId, lastSearchResults,
                       storeUp, hybridVars, filterVars, restVars>>

\* return { success: false, message, ... }
ReturnFailure(t) ==
    /\ turns[t].pc = "returnFailure"
    /\ turns' = [turns EXCEPT ![t].pc = "done", ![t].outcome = "failure"]
    /\ UNCHANGED <<currentUserId, lastSearchResults, storeUp,
                   storeVars, hybridVars, filterVars, restVars>>

\* throw error, at the end of the catch block of handleStreamChat
Rethrow(t) ==
    /\ turns[t].pc = "rethrow"
    /\ turns' = [turns EXCEPT ![t].pc = "done", ![t].outcome = "thrown"]
    /\ UNCHANGED <<currentUserId, lastSearchResults, storeUp,
                   storeVars, hybridVars, filterVars, restVars>>

\* The document store stops answering, and answers again.
StoreFails ==
    /\ storeUp
    /\ storeUp' = FALSE
    /\ UNCHANGED <<turns, currentUserId, lastSearchResults,
                   storeVars, hybridVars, filterVars, restVars>>

StoreRecovers ==
    /\ ~storeUp
    /\ storeUp' = TRUE
    /\ UNCHANGED <<turns, currentUserId, lastSearchResults,
                   storeVars, hybridVars, filterVars, restVars>>

(***************************************************************************)
(* Bounded inputs of the chat turns                                        *)
(***************************************************************************)
SearchArguments ==
    {Obj(<<Prop(QueryKey, Str(BeachHouse)), Prop(LimitKey, Num(2))>>),
     Obj(<<Prop(QueryKey, Str(BeachHouseInPorto)),
           Prop(FiltersKey, Obj(<<Prop(FilterKeyChars("property_type"), Str(Apartment))>>)),
           Prop(LimitKey, Num(3))>>),
     Obj(<<Prop(QueryKey, Str(<<>>)), Prop(LimitKey, Num(0))>>),
     Obj(<<Prop(QueryKey, Str(BeachHouse))>>)}

\* A text cut short before its last character.
Cut(payload) == SubSeq(payload, 1, Len(payload) - 1)

ToolCall(name, payload) == [name |-> name, payload |-> payload]

\* The tool calls the model makes: well-formed ones and cut ones.
ModelToolCalls ==
    {ToolCall("searchRentals", JsonStringify(a)) : a \in SearchArguments}
    \cup {ToolCall("searchRentals", Cut(JsonStringify(a))) : a \in SearchArguments}
    \cup {ToolCall("getPropertyDetails",
                   JsonStringify(Obj(<<Prop(PropertyIdKey, Num(1))>>))),
          ToolCall("getPropertyDetails",
                   Cut(JsonStringify(Obj(<<Prop(PropertyIdKey, Num(1))>>)))),
          ToolCall("getSavedRentals",
                   JsonStringify(Obj(<<Prop(IncludeDetailsKey, Bool(FALSE))>>)))}

FinalOutputs ==
    {Undef, Str(HereAreSomeRentals), Str(FoundSearchPerformed),
     Str(SentenceSearchPerformed), Str(LowerCaseSentence)}

\* Answers of the search indexes to one hybridSearch: whether the search
\* threw, the ranking of the vector index, the documents the text matches.
\* The store scans the collection from its last document here.
IndexAnswer(threw, order, m) ==
    [threw |-> threw,
     q     |-> [scores |-> [id \in RentalIds |-> 8], order |-> order],
     m     |-> [matches |-> m, order |-> <<3, 2, 1>>]]

IndexAnswers ==
    {IndexAnswer(FALSE, order, m) : order \in Orderings(RentalIds), m \in {{}, {3}}}
    \cup {IndexAnswer(TRUE, <<1, 2, 3>>, {})}

(***************************************************************************)
(* Specifications                                                          *)
(***************************************************************************)
StoreIdle ==
    /\ conversations = <<>>
    /\ calls = [p \in Callers |-> ReadyCall]
    /\ historyResult = NoHistory

HybridIdle ==
    /\ searchCall = NoSearchCall
    /\ vectorPromise = NoPromise
    /\ traditionalPromise = NoPromise
    /\ searchResult = <<>>

FilterIdle ==
    /\ queryCall = NoQueryCall
    /\ builtQuery = EmptyQuery

\* The agent as constructed: currentUserId and lastSearchResults are not
\* set by the constructor.
NoSaveCall == [pc |-> "idle", rentalId |-> 1, result |-> "none"]

RestIdle ==
    /\ now = 0
    /\ sweepResult = [op |-> "none", deletedCount |-> 0]
    /\ userProfile = [saved_rentals |-> <<>>, search_history |-> <<>>,
                      entries |-> <<>>, updates |-> 0]
    /\ saveCalls = [p \in Callers |-> NoSaveCall]

AgentIdle ==
    /\ turns = [t \in Turns |-> IdleTurn]
    /\ currentUserId = "undefined"
    /\ lastSearchResults = [defined |-> FALSE, list |-> <<>>]
    /\ storeUp = TRUE

InitStore == StoreIdle /\ HybridIdle /\ FilterIdle /\ AgentIdle /\ RestIdle

NextStore ==
    \/ \E p \in Callers, s \in SessionIds, r \in Roles : AddMessage(p, s, r)
    \/ \E p \in Callers : UpdateOneMessage(p)
    \/ \E p \in Callers : AddMessageUpsertInsert(p)
    \/ \E s \in SessionIds, k \in HistoryLimits : GetConversationHistory(s, k)
    \/ \E p \in Callers, m \in MetadataObjects :
           UpdateConversationMetadata(p, "s1", m)
    \/ \E p \in Callers : UpdateOneMetadata(p)

SpecStore == InitStore /\ [][NextStore]_vars

\* Concurrent addMessage calls alone, from the empty store.
NextAddMessage ==
    \/ \E p \in Callers, s \in SessionIds, r \in Roles : AddMessage(p, s, r)
    \/ \E p \in Callers : UpdateOneMessage(p)
    \/ \E p \in Callers : AddMessageUpsertInsert(p)

SpecAddMessage == InitStore /\ [][NextAddMessage]_vars

InitHybrid == StoreIdle /\ HybridIdle /\ FilterIdle /\ AgentIdle /\ RestIdle

NextHybrid ==
    \/ HybridSearchCall
    \/ VectorSearchResolve
    \/ VectorSearchReject
    \/ TraditionalSearchResolve
    \/ TraditionalSearchReject
    \/ HybridSearchReturn
    \/ HybridSearchThrow

SpecHybrid == InitHybrid /\ [][NextHybrid]_vars

InitFilter == StoreIdle /\ HybridIdle /\ FilterIdle /\ AgentIdle /\ RestIdle

NextFilter ==
    \/ ReceiveParam
    \/ BuildSearchQueryCall

SpecFilter == InitFilter /\ [][NextFilter]_vars

\* rentalRAGAgent.chat(userMessage, [], userId) called directly, one call
\* after the other.
ChatCall(t, userId) ==
    /\ turns[t].pc \in {"idle", "response"}
    /\ turns' = [turns EXCEPT ![t] =
           [IdleTurn EXCEPT !.pc = "chat", !.userId = userId,
                            !.userMessage = Str(ShowMeRentals)]]
    /\ UNCHANGED <<currentUserId, lastSearchResults, storeUp,
                   storeVars, hybridVars, filterVars, restVars>>

\* The life of the sessions: sessions are created, messages are added,
\* metadata is updated, sessions are deleted and swept while the days pass.
InitLifecycle == StoreIdle /\ HybridIdle /\ FilterIdle /\ AgentIdle /\ RestIdle

NextLifecycle ==
    \/ \E p \in Callers : CreateConversation(p, "s1")
    \/ \E p \in Callers : InsertOneConversation(p)
    \/ \E p \in Callers, s \in SessionIds :
           AddMessage(p, s, IF p % 2 = 1 THEN "user" ELSE "assistant")
    \/ \E p \in Callers : UpdateOneMessage(p)
    \/ \E p \in Callers : AddMessageUpsertInsert(p)
    \/ \E p \in Callers, m \in ControllerMetadata :
           UpdateConversationMetadata(p, "s1", m)
    \/ \E p \in Callers : UpdateOneMetadata(p)
    \/ \E s \in SessionIds : DeleteConversation(s)
    \/ \E p \in Callers, d \in 0..MaxDaysOld : CleanupOldConversations(p, d)
    \/ \E p \in Callers : DeleteManyOld(p)
    \/ Tick

SpecLifecycle == InitLifecycle /\ [][NextLifecycle]_vars

\* handleChatMessage on a session that already holds messages, with a
\* second call on the same session.
MaxStored == 21

\* A session s1 with n messages, user and assistant in turn.
StoredSession(n) ==
    [sessionId |-> "s1",
     messages  |-> [i \in 1..n |->
                       NewMessage(100 + i, IF i % 2 = 1 THEN "user" ELSE "assistant",
                                  [error |-> FALSE])],
     metadata  |-> [totalMessages |-> n, toolCallsInSession |-> Undef,
                    lastActivity |-> 0]]

\* Short sessions, and sessions of about the length getConversationHistory
\* reads.
StoredSizes == {0, 1, 2} \cup ((MaxStored - 2)..MaxStored)

InitHistory ==
    /\ \E n \in StoredSizes :
           conversations = IF n = 0 THEN <<>> ELSE <<StoredSession(n)>>
    /\ calls = [p \in Callers |-> ReadyCall]
    /\ historyResult = NoHistory
    /\ HybridIdle /\ FilterIdle /\ AgentIdle /\ RestIdle

NextHistory ==
    \/ \E t \in Turns, b \in BOOLEAN, h \in RequestHistories :
           HandleChatMessage(t, "chat", "s1", NullId, b, h)
    \/ \E t \in Turns : StoreUserMessage(t)
    \/ \E t \in Turns : TurnAddMessage(t)
    \/ \E t \in Turns : TurnAddMessageUpsertInsert(t)
    \/ \E t \in Turns : EnhanceMessage(t)
    \/ \E t \in Turns : ChatBegin(t)
    \/ \E t \in Turns : ChatReturn(t, Str(HereAreSomeRentals))
    \/ \E t \in Turns : ChatCatch(t)
    \/ \E t \in Turns : HandleResponse(t)
    \/ \E t \in Turns : TurnAddToSearchHistory(t)
    \/ \E t \in Turns : TurnUpdateMetadata(t)
    \/ \E t \in Turns : ReturnFailure(t)
    \/ StoreFails
    \/ StoreRecovers

SpecHistory == InitHistory /\ [][NextHistory]_vars

\* A user with a search history of some length, whose rentals are saved and
\* unsaved and whose searches are recorded by concurrent requests.
SearchHistorySizes == {0, 1} \cup ((SearchHistoryKept - 1)..SearchHistoryKept)

InitUser ==
    /\ StoreIdle /\ HybridIdle /\ FilterIdle /\ AgentIdle
    /\ now = 0
    /\ sweepResult = [op |-> "none", deletedCount |-> 0]
    /\ \E n \in SearchHistorySizes :
           userProfile = [saved_rentals |-> <<>>, search_history |-> [i \in 1..n |-> i],
                          entries |-> [i \in 1..n |-> i], updates |-> 0]
    /\ saveCalls = [p \in Callers |-> NoSaveCall]

NextUser ==
    \/ \E p \in Callers, r \in SavedRentalIds : SaveRentalFind(p, r)
    \/ \E p \in Callers : SaveRentalPush(p)
    \/ \E r \in SavedRentalIds : UnsaveRental(r)
    \/ AddToSearchHistory

SpecUser == InitUser /\ [][NextUser]_vars

InitAgent == StoreIdle /\ HybridIdle /\ FilterIdle /\ AgentIdle /\ RestIdle

NextAgent ==
    \/ \E u \in UserIds \cup {NullId} : ChatCall(1, u)
    \/ ChatBegin(1)
    \/ \E c \in ModelToolCalls : RunToolCall(1, c.name, c.payload)
    \/ \E a \in IndexAnswers : RunToolExecute(1, a)
    \/ \E f \in FinalOutputs : ChatReturn(1, f)
    \/ ChatCatch(1)

SpecAgent == InitAgent /\ [][NextAgent]_vars

\* Concurrent calls of rentalRAGAgent.chat, one per turn.
ConcurrentToolCalls ==
    {c \in ModelToolCalls :
        \/ c.name = "getSavedRentals"
        \/ c.name = "searchRentals"
           /\ JsonParse(c.payload).ok
           /\ GetProp(JsonParse(c.payload).value, LimitKey) = Num(2)}

ConcurrentIndexAnswers ==
    {IndexAnswer(FALSE, <<1, 2, 3>>, {}), IndexAnswer(FALSE, <<3, 2, 1>>, {})}

InitAgents == StoreIdle /\ HybridIdle /\ FilterIdle /\ AgentIdle /\ RestIdle

NextAgents ==
    \/ \E t \in Turns, u \in UserIds \cup {NullId} :
           turns[t].pc = "idle" /\ ChatCall(t, u)
    \/ \E t \in Turns : ChatBegin(t)
    \/ \E t \in Turns, c \in ConcurrentToolCalls : RunToolCall(t, c.name, c.payload)
    \/ \E t \in Turns, a \in ConcurrentIndexAnswers : RunToolExecute(t, a)
    \/ \E t \in Turns : ChatReturn(t, Str(HereAreSomeRentals))
    \/ \E t \in Turns : ChatCatch(t)

SpecAgents == InitAgents /\ [][NextAgents]_vars

\* Concurrent requests to the chat controller: one with any of the bounded
\* inputs, and an anonymous chat request on session "s1" that the model
\* answers without calling a tool.
TurnSessionIds == {"s1", NullId}

TurnToolCalls ==
    {c \in ModelToolCalls :
        /\ c.name = "searchRentals"
        /\ JsonParse(c.payload).ok
        /\ GetProp(JsonParse(c.payload).value, LimitKey) = Num(2)}

\* The call a streamed run makes besides: getSavedRentals.
StreamToolCalls ==
    {c \in ModelToolCalls :
        c.name = "getSavedRentals" /\ JsonParse(c.payload).ok}

TurnFinalOutputs == {Str(HereAreSomeRentals), Str(FoundSearchPerformed)}

TurnIndexAnswers == {IndexAnswer(FALSE, <<1, 2, 3>>, {})}

InitChat == StoreIdle /\ HybridIdle /\ FilterIdle /\ AgentIdle /\ RestIdle

NextChat ==
    \/ \E k \in {"chat", "stream"}, s \in TurnSessionIds,
          u \in {"u1", NullId}, b \in BOOLEAN :
           HandleChatMessage(1, k, s, u, b, <<>>)
    \/ HandleChatMessage(2, "chat", "s1", NullId, FALSE, <<>>)
    \/ \E t \in Turns : StoreUserMessage(t)
    \/ \E t \in Turns : TurnAddMessage(t)
    \/ \E t \in Turns : TurnAddMessageUpsertInsert(t)
    \/ \E t \in Turns : EnhanceMessage(t)
    \/ \E t \in Turns : ChatBegin(t)
    \/ \E c \in TurnToolCalls : RunToolCall(1, c.name, c.payload)
    \/ \E c \in StreamToolCalls :
           turns[1].kind = "stream" /\ RunToolCall(1, c.name, c.payload)
    \/ \E a \in TurnIndexAnswers : RunToolExecute(1, a)
    \/ \E f \in TurnFinalOutputs : ChatReturn(1, f)
    \/ ChatReturn(2, Str(HereAreSomeRentals))
    \/ \E t \in Turns : ChatCatch(t)
    \/ \E t \in Turns : HandleResponse(t)
    \/ \E t \in Turns : TurnAddToSearchHistory(t)
    \/ \E t \in Turns : CallUpdateConversationMetadata(t)
    \/ \E t \in Turns : TurnUpdateMetadata(t)
    \/ \E t \in Turns : ReturnFailure(t)
    \/ \E t \in Turns : StreamChatReturn(t)
    \/ \E t \in Turns : StreamEnd(t)
    \/ \E t \in Turns : StreamChatThrow(t)
    \/ \E t \in Turns : Rethrow(t)
    \/ StoreFails
    \/ StoreRecovers

SpecChat == InitChat /\ [][NextChat]_vars

(***************************************************************************)
(* Claims about the conversation store                                     *)
(***************************************************************************)

\* The addMessage calls that have been issued on a session id.
CallsOn(sessionId) ==
    {p \in Callers : calls[p].pc # "ready" /\ calls[p].sessionId = sessionId}

IsSuffix(s, t) ==
    /\ Len(s) <= Len(t)
    /\ s = SubSeq(t, Len(t) - Len(s) + 1, Len(t))

\* C1: once N >= 1 concurrent addMessage calls on one sessionId, started from
\* an empty store, have all completed, the store holds exactly one session for
\* that sessionId, with exactly N messages and metadata.totalMessages = N.
C1_OneSessionWithNMessages ==
    \A s \in SessionIds :
        (/\ CallsOn(s) # {}
         /\ \A p \in CallsOn(s) : calls[p].pc = "done")
        => /\ Cardinality(MatchingDocs(conversations, s)) = 1
           /\ \A i \in MatchingDocs(conversations, s) :
                  /\ Len(conversations[i].messages) = Cardinality(CallsOn(s))
                  /\ conversations[i].metadata.totalMessages = Cardinality(CallsOn(s))

\* C10: getConversationHistory(sessionId, k) on a session storing n messages
\* returns the last min(k, n) of them in stored order: a suffix of the stored
\* list, never more than k messages.
C10_HistoryIsLastK ==
    historyResult.called =>
        /\ IsSuffix(historyResult.messages, historyResult.stored)
        /\ Len(historyResult.messages) <= Max(historyResult.limit, 0)
        /\ Len(historyResult.messages) =
               Min(Max(historyResult.limit, 0), Len(historyResult.stored))

IsPrefix(s, t) ==
    /\ Len(s) <= Len(t)
    /\ s = SubSeq(t, 1, Len(s))

UpdateMetadataStep == \E p \in Callers : UpdateOneMetadata(p)

\* C20: across addMessage and updateConversationMetadata steps the message
\* list of every stored session only grows at its end (the earlier list is a
\* prefix of the later one), and a step of updateConversationMetadata leaves
\* every message list and every totalMessages counter as it was.
C20_AppendOnlyAndCounterKept ==
    [][/\ Len(conversations) <= Len(conversations')
       /\ \A i \in 1..Len(conversations) :
              IsPrefix(conversations[i].messages, conversations'[i].messages)
       /\ UpdateMetadataStep =>
              \A i \in 1..Len(conversations) :
                  /\ conversations'[i].messages = conversations[i].messages
                  /\ conversations'[i].metadata.totalMessages =
                         conversations[i].metadata.totalMessages]_vars

\* A document stored under the session id is gone after the step.
SessionRemoved(s) ==
    Cardinality(MatchingDocs(conversations', s)) <
        Cardinality(MatchingDocs(conversations, s))

DeleteStep(s) == DeleteConversation(s)

\* The store runs the deleteMany of the sweep caller p called.
SweepStep(p) == DeleteManyOld(p)

\* The documents whose last activity lies more than the d days of the sweep
\* of caller p before the day that sweep was called.
OlderThanDays(p) ==
    {i \in 1..Len(conversations) :
        calls[p].at - conversations[i].metadata.lastActivity > calls[p].daysOld}

\* The documents of the positions in keep, in their stored order.
RECURSIVE DocsAt(_, _, _)
DocsAt(coll, keep, i) ==
    IF i > Len(coll) THEN <<>>
    ELSE (IF i \in keep THEN <<coll[i]>> ELSE <<>>) \o DocsAt(coll, keep, i + 1)

C26_TotalMessagesIsMessageCount ==
    \A i \in 1..Len(conversations) :
        conversations[i].metadata.totalMessages = Len(conversations[i].messages)

\* A delete landed between the user append and the assistant append on one
\* session id: the session stored holds the assistant message alone.
C26_Witness ==
    /\ sweepResult = [op |-> "delete", deletedCount |-> 1]
    /\ \A p \in Callers : calls[p].pc = "done" /\ calls[p].sessionId = "s1"
    /\ Len(conversations) = 1
    /\ Len(conversations[1].messages) = 1
    /\ conversations[1].messages[1].role = "assistant"

(***************************************************************************)
(* Claims about RentalRAGAgent.chat                                        *)
(***************************************************************************)
\* The tool calls the model made in the turn, as the runtime recorded them.
ToolCallItems(turn) ==
    SelectSeq(turn.newItems, LAMBDA item : item.type = "tool_call_item")

SearchItems(turn) ==
    SelectSeq(turn.newItems,
              LAMBDA item : item.type = "tool_call_item" /\ item.name = "searchRentals")

Answered(turn) == turn.response.returned /\ turn.run = "resolved"

\* The arguments of a recorded call, or nothing when its text is not JSON.
ArgumentsOf(item) ==
    IF JsonParse(item.arguments.s).ok THEN JsonParse(item.arguments.s).value ELSE Undef

LastSearchArguments(turn) == ArgumentsOf(SearchItems(turn)[Len(SearchItems(turn))])

\* C16 (as stated): when the tool calls of a turn hold searchRentals calls,
\* search_query, search_filters and search_limit are the query, filters and
\* limit arguments of the last of them.
C16_MetadataIsLastSearchArguments ==
    \A t \in Turns :
        (Answered(turns[t]) /\ SearchItems(turns[t]) # <<>>) =>
            LET m == turns[t].response.metadata
                a == LastSearchArguments(turns[t])
            IN  /\ m.search_query   = GetProp(a, QueryKey)
                /\ m.search_filters = GetProp(a, FiltersKey)
                /\ m.search_limit   = GetProp(a, LimitKey)

\* C16 (amended): each of search_query, search_filters and search_limit is
\* the argument of the last searchRentals call when that call's arguments
\* parsed and the argument is truthy; otherwise it is the user message, the
\* empty object and 5.
C16_MetadataIsLastSearchOrDefault ==
    \A t \in Turns :
        (Answered(turns[t]) /\ SearchItems(turns[t]) # <<>>) =>
            LET m == turns[t].response.metadata
                a == LastSearchArguments(turns[t])
                query   == GetProp(a, QueryKey)
                filters == GetProp(a, FiltersKey)
                limit   == GetProp(a, LimitKey)
            IN  /\ m.search_query =
                       IF query.t = "string" /\ query.s # <<>>
                       THEN query ELSE turns[t].userMessage
                /\ m.search_filters =
                       IF filters.t = "object" THEN filters ELSE Obj(<<>>)
                /\ m.search_limit =
                       IF limit.t = "number" /\ limit.n # 0 THEN limit ELSE Num(5)

\* Two searchRentals calls, "beach house" then "beach house in Porto": the
\* query reported is the second.
C16_Witness ==
    \E t \in Turns :
        /\ Answered(turns[t])
        /\ Len(SearchItems(turns[t])) = 2
        /\ GetProp(ArgumentsOf(SearchItems(turns[t])[1]), QueryKey) = Str(BeachHouse)
        /\ GetProp(ArgumentsOf(SearchItems(turns[t])[2]), QueryKey) = Str(BeachHouseInPorto)
        /\ turns[t].response.metadata.search_query = Str(BeachHouseInPorto)

RetrievalToolCalled(turn) ==
    \E i \in 1..Len(turn.newItems) :
        /\ turn.newItems[i].type = "tool_call_item"
        /\ turn.newItems[i].name \in {"searchRentals", "getPropertyDetails"}

\* The final text carries 'search_performed: true' or 'Search performed:
\* true'.
CarriesSearchMarker(message) ==
    /\ message.t = "string"
    /\ \E i \in 1..Len(message.s) :
           \/ HasPrefix(Drop(message.s, i - 1), MarkerPlain)
           \/ HasPrefix(Drop(message.s, i - 1), MarkerSentence)

\* C17: search_performed is true exactly when a tool call of the turn names
\* searchRentals or getPropertyDetails or the final text carries the search
\* marker; when neither holds, no other search metadata field is present.
C17_SearchPerformedIffToolOrMarker ==
    \A t \in Turns :
        Answered(turns[t]) =>
            LET r == turns[t].response
            IN  /\ r.search_performed <=>
                       (RetrievalToolCalled(turns[t]) \/ CarriesSearchMarker(r.message))
                /\ ~r.search_performed => r.metadata = EmptyMetadata

\* A turn that called getPropertyDetails alone, with no marker in the text.
C17_Witness ==
    \E t \in Turns :
        /\ Answered(turns[t])
        /\ SearchItems(turns[t]) = <<>>
        /\ RetrievalToolCalled(turns[t])
        /\ ~CarriesSearchMarker(turns[t].response.message)
        /\ turns[t].response.search_performed

\* C19: when the arguments of a tool call are not JSON, the turn still
\* completes with success; the record of that call keeps its name and the
\* unparsed text, and every other call is extracted with parsed arguments.
C19_UnparsedArgumentsKeptRaw ==
    \A t \in Turns :
        Answered(turns[t]) =>
            LET items == ToolCallItems(turns[t])
                calls_ == turns[t].response.toolCalls
            IN  /\ turns[t].response.success
                /\ Len(calls_) = Len(items)
                /\ \A i \in 1..Len(items) :
                       /\ calls_[i].name = items[i].name
                       /\ calls_[i].arguments =
                              IF JsonParse(items[i].arguments.s).ok
                              THEN JsonParse(items[i].arguments.s).value
                              ELSE items[i].arguments

\* A turn whose first call has arguments that are not JSON and whose second
\* call has parsed arguments.
C19_Witness ==
    \E t \in Turns :
        /\ Answered(turns[t])
        /\ Len(turns[t].response.toolCalls) = 2
        /\ turns[t].response.toolCalls[1].arguments.t = "string"
        /\ turns[t].response.toolCalls[2].arguments.t = "object"
        /\ turns[t].response.success

\* C14: whatever the interleaving of two chat calls, every getSavedRentals
\* lookup made in a turn is made for the user id that was passed to that
\* turn.
C14_SavedRentalsForOwnUser ==
    \A t \in Turns :
        \A i \in 1..Len(turns[t].savedFor) : turns[t].savedFor[i] = turns[t].userId

\* C15: whatever the interleaving, the rental_ids a turn with a
\* searchRentals call reports are the ids, in rank order, of the last fused
\* search executed in that same turn.
C15_RentalIdsOfOwnLastSearch ==
    \A t \in Turns :
        (Answered(turns[t]) /\ SearchItems(turns[t]) # <<>>) =>
            /\ turns[t].results.ran
            /\ turns[t].response.metadata.rental_ids.present
            /\ turns[t].response.metadata.rental_ids.ids = turns[t].results.ids

\* The names of the tools the model invoked in the turn, in invocation
\* order.
InvokedNames(turn) ==
    [i \in 1..Len(ToolCallItems(turn)) |-> ToolCallItems(turn)[i].name]

\* C25: when a turn is completed, the tool-call list extracted for it holds
\* exactly one record per tool invocation the model made in that turn, in
\* invocation order, whatever another turn does meanwhile.
C25_OneRecordPerInvocationInOrder ==
    \A t \in Turns :
        Answered(turns[t]) =>
            LET records == turns[t].response.toolCalls
            IN  /\ Len(records) = ToolCallsMade(turns[t])
                /\ [i \in 1..Len(records) |-> records[i].name] = InvokedNames(turns[t])

\* A completed turn that invoked searchRentals and then getSavedRentals,
\* while the other turn invoked getSavedRentals first.
C25_Witness ==
    \E t, u \in Turns :
        /\ t # u
        /\ Answered(turns[t])
        /\ InvokedNames(turns[t]) = <<"searchRentals", "getSavedRentals">>
        /\ Len(InvokedNames(turns[u])) >= 1
        /\ InvokedNames(turns[u])[1] = "getSavedRentals"

(***************************************************************************)
(* Claims about handleChatMessage and handleStreamChat                     *)
(***************************************************************************)
\* The turn is between its start and the return of the model call.
BeforeModelReturned(turn) ==
    \/ turn.pc \in {"storeUserMessage", "enhance", "chat", "streamChat", "running", "tool"}
    \/ turn.pc \in {"addMessage", "addMessageInsert"} /\ turn.next = "enhance"

\* No other call is working on the session of turn t.
AloneOnSession(t) ==
    \A u \in Turns \ {t} :
        turns[u].pc = "idle" \/ turns[u].sessionId # turns[t].sessionId

\* C11: from the start of handleChatMessage until the model call has
\* returned, the stored message list of the session is the list that was
\* stored when the turn started.
C11_NothingStoredBeforeModelReturns ==
    \A t \in Turns :
        (turns[t].kind = "chat" /\ BeforeModelReturned(turns[t]) /\ AloneOnSession(t)) =>
            StoredMessages(conversations, turns[t].sessionId) = turns[t].before

\* The addMessage calls of the turn that carried error: true.
ErrorAppends(turn) == {i \in 1..Len(turn.added) : turn.added[i].error}

\* The messages of turn t stored with error: true under its session id.
StoredErrorMessages(t) ==
    {p \in UNION {{<<d, i>> : i \in 1..Len(conversations[d].messages)} :
                     d \in MatchingDocs(conversations, turns[t].sessionId)} :
        /\ conversations[p[1]].messages[p[2]].metadata.error
        /\ conversations[p[1]].messages[p[2]].id \in (10 * t + 1)..(10 * t + 9)}

\* C12: when handleChatMessage returns a failure (the agent answered
\* success: false, or an exception was caught once the session id was
\* known), it has by then made exactly one addMessage call with error: true,
\* for the assistant role, and the session holds exactly one message of the
\* turn flagged error: true.
C12_OneErrorMessageOnFailure ==
    \A t \in Turns :
        (turns[t].kind = "chat" /\ turns[t].outcome = "failure") =>
            /\ Cardinality(ErrorAppends(turns[t])) = 1
            /\ \A i \in ErrorAppends(turns[t]) :
                   /\ turns[t].added[i].role = "assistant"
                   /\ i = Len(turns[t].added)
            /\ Cardinality(StoredErrorMessages(t)) = 1

\* A collaborator failed during the turn: the store did not answer an
\* addMessage, or the model runtime failed.
CollaboratorFailed(turn) ==
    \/ \E i \in 1..Len(turn.added) : ~turn.added[i].success
    \/ turn.run = "rejected"
    \/ turn.kind = "stream" /\ ErrorAppends(turn) # {}

\* C13: a chat operation during which an external collaborator failed ends
\* by returning a failure object; it does not throw and does not report
\* success.
C13_CollaboratorFailureReturnsFailure ==
    \A t \in Turns :
        (turns[t].pc = "done" /\ CollaboratorFailed(turns[t])) =>
            turns[t].outcome = "failure"

\* The turn ran handleChatMessage to its end on a session id under which
\* nothing was stored, and the model answered without a tool call.
NewSessionNoToolCall(t) ==
    /\ turns[t].kind = "chat"
    /\ turns[t].pc = "done"
    /\ turns[t].before = <<>>
    /\ turns[t].run = "resolved"
    /\ ToolCallItems(turns[t]) = <<>>

\* The call succeeded and the session holds the user message of the turn
\* followed by its assistant message.
SessionCreatedWithBothMessages(t) ==
    LET stored == StoredMessages(conversations, turns[t].sessionId)
    IN  /\ turns[t].outcome = "success"
        /\ MatchingDocs(conversations, turns[t].sessionId) # {}
        /\ \E i \in 1..(Len(stored) - 1) :
               /\ stored[i] = NewMessage(10 * t + 1, "user", [error |-> FALSE])
               /\ stored[i + 1] = NewMessage(10 * t + 2, "assistant", [error |-> FALSE])

\* C18: for a session id with no stored session and a model that makes no
\* tool call, the call succeeds, the session is created with the user
\* message followed by the assistant message, search_performed is false and
\* search_query is absent.
C18_NewSessionNoSearch ==
    \A t \in Turns :
        NewSessionNoToolCall(t) =>
            /\ SessionCreatedWithBothMessages(t)
            /\ ~turns[t].response.search_performed
            /\ turns[t].response.metadata.search_query = Undef

\* The request came without a conversation_history and the history of the
\* turn has been handed to the model.
Dispatched(turn) ==
    turn.kind = "chat" /\ turn.conversation_history = <<>> /\ turn.history # <<>>

\* The most recent messages getConversationHistory reads at most.
MostRecent(messages, n) ==
    SubSeq(messages, Max(1, Len(messages) - n + 1), Len(messages))

\* The ids of the messages of role user, in stored order.
UserMessageIds(messages) ==
    LET users == SelectSeq(messages, LAMBDA msg : msg.role = "user")
    IN  [i \in 1..Len(users) |-> users[i].id]

\* C28: with no conversation_history from the caller, the history sent to
\* the model is built from at most the 20 most recent messages that were
\* stored before the current user message was appended (the user messages
\* among them, in chronological order, or none when the read failed),
\* followed by the current user message exactly once as the last item; the
\* messages read stay stored as they were.
C28_HistoryIsRecentThenCurrent ==
    \A t \in Turns :
        Dispatched(turns[t]) =>
            LET h    == turns[t].history
                rest == [i \in 1..(Len(h) - 1) |-> h[i].id]
            IN  /\ h[Len(h)] = [id |-> 10 * t + 1, current |-> TRUE]
                /\ \A i \in 1..(Len(h) - 1) : ~h[i].current /\ h[i].id # 10 * t + 1
                /\ Len(rest) <= 20
                /\ rest \in {UserMessageIds(MostRecent(turns[t].before, 20)), <<>>}
                /\ IsPrefix(turns[t].before,
                            StoredMessages(conversations, turns[t].sessionId))

\* A turn on a session of 21 messages: the first message is left out, the
\* ten user messages among the last 20 are sent, then the current one.
C28_Witness ==
    \E t \in Turns :
        /\ Dispatched(turns[t])
        /\ Len(turns[t].before) = 21
        /\ Len(turns[t].history) = 11
        /\ turns[t].history[1].id = 103

\* The messages turn t has stored under its session id, in id order.
StoredBy(t) ==
    {p \in UNION {{<<d, i>> : i \in 1..Len(conversations[d].messages)} :
                     d \in MatchingDocs(conversations, turns[t].sessionId)} :
        conversations[p[1]].messages[p[2]].id \in (10 * t + 1)..(10 * t + 9)}

RoleStoredBy(t, id) ==
    {conversations[p[1]].messages[p[2]].role : p \in
        {q \in StoredBy(t) : conversations[q[1]].messages[q[2]].id = id}}

\* The handleChatMessage calls that have returned on session s.
CompletedOn(s) ==
    {t \in Turns : turns[t].kind = "chat" /\ turns[t].pc = "done"
                   /\ turns[t].sessionId = s}

\* C27: a handleChatMessage call that has returned, with success or with a
\* failure, has appended to its session one user message and then one
\* assistant message, and nothing else; once the k calls made on a session
\* have all returned, the session holds 2k messages.
C27_TwoMessagesPerCompletedCall ==
    /\ \A t \in Turns :
           (turns[t].kind = "chat" /\ turns[t].pc = "done") =>
               /\ Cardinality(StoredBy(t)) = 2
               /\ RoleStoredBy(t, 10 * t + 1) = {"user"}
               /\ RoleStoredBy(t, 10 * t + 2) = {"assistant"}
    /\ \A s \in {turns[t].sessionId : t \in Turns} :
           (\A t \in Turns : turns[t].sessionId = s => turns[t] \in
                {turns[u] : u \in CompletedOn(s)})
           => Len(StoredMessages(conversations, s)) = 2 * Cardinality(CompletedOn(s))

(***************************************************************************)
(* Claims about UserModel                                                  *)
(***************************************************************************)
\* C29: under every interleaving of saveRental and unsaveRental calls for
\* one user, a rental id occurs at most once in saved_rentals.
C29_SavedRentalsUnique ==
    \A i, j \in 1..Len(userProfile.saved_rentals) :
        userProfile.saved_rentals[i] = userProfile.saved_rentals[j] => i = j

\* C30: after any sequence of addToSearchHistory calls, concurrent ones
\* included, search_history holds at most 50 entries, and they are the most
\* recently added entries in the order they were added.
C30_SearchHistoryIsLastFifty ==
    /\ Len(userProfile.search_history) <= 50
    /\ userProfile.search_history = MostRecent(userProfile.entries, 50)

\* A history that held 50 entries and got two more: the two oldest are gone.
C30_Witness ==
    /\ Len(userProfile.entries) = 52
    /\ Len(userProfile.search_history) = 50
    /\ userProfile.search_history[1] = 3
    /\ userProfile.search_history[50] > 1000

(***************************************************************************)
(* Claims about hybridSearch                                               *)
(***************************************************************************)
Returned == searchCall.pc = "returned"

SemanticIds == IdsOf(vectorPromise.value)

LexicalIds == {traditionalPromise.value[i] : i \in 1..Len(traditionalPromise.value)}

\* C2: the list hybridSearch returns never holds two results with the same
\* id, and a result whose id both searches returned is the semantic entry,
\* with its semantic score.
C2_FusedIdsUnique ==
    Returned =>
        /\ \A i, j \in 1..Len(searchResult) :
               searchResult[i]._id = searchResult[j]._id => i = j
        /\ \A i \in 1..Len(searchResult) :
               searchResult[i]._id \in SemanticIds \cap LexicalIds =>
                   \E k \in 1..Len(vectorPromise.value) :
                       vectorPromise.value[k] = searchResult[i]

\* A fused list holding a result that both searches returned.
C2_Witness ==
    /\ Returned
    /\ \E i \in 1..Len(searchResult) :
           searchResult[i]._id \in SemanticIds \cap LexicalIds

\* C3: for limit >= 1 the returned list is no longer than limit, and when the
\* two searches returned fewer than limit distinct ids it holds all of them.
C3_FusedLength ==
    Returned =>
        /\ Len(searchResult) <= searchCall.limit
        /\ Cardinality(SemanticIds \cup LexicalIds) < searchCall.limit =>
               IdsOf(searchResult) = SemanticIds \cup LexicalIds

\* Fewer distinct ids than limit, some of them found by the lexical search
\* only.
C3_Witness ==
    /\ Returned
    /\ Cardinality(SemanticIds \cup LexicalIds) < searchCall.limit
    /\ SemanticIds # {}
    /\ LexicalIds \ SemanticIds # {}

\* C4 as claimed: the fallback score keeps lexical-only hits below every
\* semantic hit, so in the returned list every semantic hit is ranked before
\* every lexical-only hit, whatever the semantic scores.
C4_SemanticAlwaysFirst ==
    Returned =>
        \A i, j \in 1..Len(searchResult) :
            (searchResult[i].source = "vector"
             /\ searchResult[j].source = "traditional")
            => i < j

\* C4 as amended: a semantic hit whose score is at least the fallback score
\* 0.5 is ranked before every lexical-only hit, and a semantic hit whose
\* score is below 0.5 is ranked after every lexical-only hit.
C4_SemanticFirstFromFallbackUp ==
    Returned =>
        \A i, j \in 1..Len(searchResult) :
            (searchResult[i].source = "vector"
             /\ searchResult[j].source = "traditional")
            => IF searchResult[i].score >= FallbackScore THEN i < j ELSE j < i

\* A fused list with a lexical-only hit between a semantic hit that scores
\* the fallback score and one that scores less.
C4_Witness ==
    /\ Returned
    /\ \E i, j, k \in 1..Len(searchResult) :
           /\ searchResult[i].source = "vector"
           /\ searchResult[i].score = FallbackScore
           /\ searchResult[j].source = "traditional"
           /\ searchResult[k].source = "vector"
           /\ searchResult[k].score < FallbackScore

\* The place of a returned result in the order of its source: the semantic
\* hits in the order the semantic search returned them, then the lexical
\* hits in the order the lexical search returned them.
SourceRank(r) ==
    IF r.source = "vector"
    THEN CHOOSE k \in 1..Len(vectorPromise.value) : vectorPromise.value[k]._id = r._id
    ELSE Len(vectorPromise.value) +
         CHOOSE k \in 1..Len(traditionalPromise.value) :
             traditionalPromise.value[k] = r._id

\* C21: the list hybridSearch returns is ordered by non-increasing score,
\* and results of equal score keep their source order: semantic hits in the
\* order of the semantic search, before lexical-only hits in the order of
\* the lexical search.
C21_SortedByScoreTiesInSourceOrder ==
    Returned =>
        \A i, j \in 1..Len(searchResult) :
            i < j =>
                /\ searchResult[i].score >= searchResult[j].score
                /\ searchResult[i].score = searchResult[j].score =>
                       SourceRank(searchResult[i]) < SourceRank(searchResult[j])

\* A returned list with two semantic hits of the fallback score followed by
\* a lexical-only hit: three results of equal score.
C21_Witness ==
    /\ Returned
    /\ \E i, j, k \in 1..Len(searchResult) :
           /\ i < j /\ j < k
           /\ searchResult[i].source = "vector"
           /\ searchResult[j].source = "vector"
           /\ searchResult[k].source = "traditional"
           /\ searchResult[i].score = FallbackScore
           /\ searchResult[j].score = FallbackScore

\* C5: hybridSearch returns a list only after both searches have completed
\* successfully; once the semantic search has failed the call never returns
\* a list, it can only throw.
C5_NoPartialResult ==
    /\ Returned =>
           /\ vectorPromise.state = "fulfilled"
           /\ traditionalPromise.state = "fulfilled"
    /\ vectorPromise.state = "rejected" =>
           /\ searchCall.pc \in {"awaiting", "thrown"}
           /\ searchResult = <<>>

\* The semantic search failed after the lexical search had returned hits,
\* and the call has thrown.
C5_Witness ==
    /\ vectorPromise.state = "rejected"
    /\ traditionalPromise.state = "fulfilled"
    /\ traditionalPromise.value # <<>>
    /\ searchCall.pc = "thrown"

\* C6: every result of the fused list, from either search, satisfies the
\* filter compiled from the filter map passed to hybridSearch.
C6_FusedResultsSatisfyFilter ==
    Returned =>
        \A i \in 1..Len(searchResult) :
            MatchesVectorFilter(Rentals[searchResult[i]._id],
                                BuildVectorSearchFilter(searchCall.filters))

(***************************************************************************)
(* Claims about buildSearchQuery                                           *)
(***************************************************************************)
Built == queryCall.pc = "returned"

PresentParams == {k \in ParamKeys : queryCall.params[k] # Undef}

\* The bound of the compiled query that a numeric parameter sets.
BoundOf(q, k) ==
    CASE k = "min_price"        -> q.price.gte
      [] k = "max_price"        -> q.price.lte
      [] k = "min_bedrooms"     -> q.bedrooms
      [] k = "min_bathrooms"    -> q.bathrooms
      [] k = "min_accommodates" -> q.accommodates
      [] k = "min_rating"       -> q.review_scores_rating

\* The document fields a query constrains.
ConstrainedFields(q) ==
    (IF q._id.present THEN {"_id"} ELSE {})
    \cup {q.or[i].field : i \in 1..Len(q.or)}
    \cup (IF q.text # Undef THEN {"$text"} ELSE {})
    \cup (IF q.property_type # Undef THEN {"property_type"} ELSE {})
    \cup (IF q.room_type # Undef THEN {"room_type"} ELSE {})
    \cup (IF q.address_country # Undef THEN {"address.country"} ELSE {})
    \cup (IF q.price.present THEN {"price"} ELSE {})
    \cup (IF q.bedrooms # Undef THEN {"bedrooms"} ELSE {})
    \cup (IF q.bathrooms # Undef THEN {"bathrooms"} ELSE {})
    \cup (IF q.accommodates # Undef THEN {"accommodates"} ELSE {})
    \cup (IF q.host_is_superhost THEN {"host.host_is_superhost"} ELSE {})
    \cup (IF q.instant_bookable THEN {"instant_bookable"} ELSE {})
    \cup (IF q.review_scores_rating # Undef
          THEN {"review_scores.review_scores_rating"} ELSE {})

\* The document fields a raw parameter is about.
FieldsOfParam(k) ==
    CASE k = "ids"              -> {"_id"}
      [] k = "text"             -> {"$text"}
      [] k = "location"         ->
             {"address.neighbourhood", "address.market", "address.country"}
      [] k = "property_type"    -> {"property_type"}
      [] k = "room_type"        -> {"room_type"}
      [] k = "country"          -> {"address.country"}
      [] k = "min_price"        -> {"price"}
      [] k = "max_price"        -> {"price"}
      [] k = "min_bedrooms"     -> {"bedrooms"}
      [] k = "min_bathrooms"    -> {"bathrooms"}
      [] k = "min_accommodates" -> {"accommodates"}
      [] k = "superhost_only"   -> {"host.host_is_superhost"}
      [] k = "instant_bookable" -> {"instant_bookable"}
      [] k = "min_rating"       -> {"review_scores.review_scores_rating"}

\* C7: in a map without ids, a numeric filter whose value does not parse as a
\* number sets no bound in the compiled query; {min_price: "50", max_price:
\* "abc"} compiles to a price range with lower bound 50 and no upper bound.
C7_UnparsableBoundDropped ==
    (Built /\ queryCall.params["ids"] = Undef) =>
        \A k \in NumericParams :
            (k \in PresentParams /\ ParseInt(queryCall.params[k]) = NaN)
            => BoundOf(builtQuery, k) = Undef

\* C22: in a map without ids, no numeric bound of the compiled query is
\* negative: a numeric filter whose value parses to a negative number, such
\* as min_price "-5", sets no bound.
C22_NoNegativeBound ==
    (Built /\ queryCall.params["ids"] = Undef) =>
        \A k \in NumericParams :
            /\ BoundOf(builtQuery, k).t = "number" => BoundOf(builtQuery, k).n >= 0
            /\ (k \in PresentParams /\ ParseInt(queryCall.params[k]).t = "number"
                   /\ ParseInt(queryCall.params[k]).n < 0)
               => BoundOf(builtQuery, k) = Undef

\* C23: buildSearchQuery never throws: whatever the raw parameter map,
\* values of any type for ids included, the call returns a query.
C23_BuildSearchQueryNeverThrows == queryCall.pc # "thrown"

\* C8: in a map without ids, the fields the compiled query constrains are
\* fields of parameters that are present, a bound of a range is set only by
\* its own parameter, and the empty map compiles to the empty query.
C8_AbsentFieldsUnconstrained ==
    (Built /\ queryCall.params["ids"] = Undef) =>
        /\ ConstrainedFields(builtQuery) \subseteq
               UNION {FieldsOfParam(k) : k \in PresentParams}
        /\ \A k \in NumericParams :
               BoundOf(builtQuery, k) # Undef => k \in PresentParams
        /\ PresentParams = {} => builtQuery = EmptyQuery

\* Only max_price is present: the query constrains price, from above only.
C8_Witness ==
    /\ Built
    /\ PresentParams = {"max_price"}
    /\ ConstrainedFields(builtQuery) = {"price"}
    /\ builtQuery.price.gte = Undef

\* The map that holds only the ids value of params.
OnlyIds(params) == [NoParams EXCEPT !["ids"] = params["ids"]]

\* The identifiers stored in the collection: object ids and numbers.
DocumentIds == {ObjectId(OidA), Num(12), Num(7), Num(5), Num(50), Num(1)}

\* The decimal numeral of a natural number.
RECURSIVE NumeralOf(_)
NumeralOf(n) ==
    LET digit == CHOOSE c \in Digits : DigitValue(c) = n % 10
    IN  IF n < 10 THEN <<digit>> ELSE NumeralOf(n \div 10) \o <<digit>>

\* The identifiers listed in an ids value, white space around them aside.
ListedTokens(ids) ==
    LET list == IF ids.t = "array" THEN ids.a ELSE SplitComma(ids.s)
    IN  {Trim(list[i]) : i \in 1..Len(list)}

\* A stored identifier is listed when a token is its hex string or its
\* decimal numeral.
IsListed(d, ids) ==
    IF d.t = "ObjectId" THEN d.s \in ListedTokens(ids)
    ELSE NumeralOf(d.n) \in ListedTokens(ids)

InValues(values, d) == \E i \in 1..Len(values) : values[i] = d

\* A document with identifier d matches an identifier query: { _id: { $in } }
\* or the $or of such clauses.
MatchesIdQuery(q, d) ==
    /\ q._id.present => InValues(q._id.in, d)
    /\ q.or # <<>> => \E i \in 1..Len(q.or) : InValues(q.or[i].in, d)
    /\ q._id.present \/ q.or # <<>>

\* C9: with a non-empty ids value the query is the one built from the ids
\* value alone, whatever the other parameters, and it matches exactly the
\* listed identifiers, object ids and numeric ids side by side.
C9_IdsOverrideFilters ==
    (Built /\ Truthy(queryCall.params["ids"])) =>
        /\ builtQuery = BuildSearchQuery(OnlyIds(queryCall.params))
        /\ ConstrainedFields(builtQuery) = {"_id"}
        /\ \A d \in DocumentIds :
               MatchesIdQuery(builtQuery, d) <=> IsListed(d, queryCall.params["ids"])

====
